---------------------------- MODULE Spec2Model ----------------------------
(***************************************************************************)
(* StateSyncActor (chain/client/src/state_sync_actor.rs): the sync tick,   *)
(* the catchup pass and the message handler of the actor, as a state       *)
(* machine.  One action is one run of one actix handler or timer callback; *)
(* the actor is single-threaded, so a handler runs to completion before    *)
(* the next one starts.                                                    *)
(*                                                                         *)
(* The chain, the header/block/state sync drivers and the network are      *)
(* collaborators outside the actor: their results are inputs drawn from    *)
(* small sets, and every call the actor makes to them is appended to `out`,*)
(* the call log of the handler that ran last.                              *)
(*                                                                         *)
(* Ibf (chain/network/src/ibf.rs), the invertible Bloom filter of the      *)
(* network crate, and the cached compile of contracts                      *)
(* (runtime/near-vm-runner/src/cache.rs) are modelled apart from the actor *)
(* at the end.                                                             *)
(***************************************************************************)
EXTENDS Integers, Sequences, FiniteSets, TLC

VARIABLES
    sync_status,          \* StateSyncActor::sync_status
    catchup_state_syncs,  \* StateSyncActor::catchup_state_syncs
    client_addr,          \* StateSyncActor::client_addr is Some
    network_info,         \* StateSyncActor::network_info
    config,               \* StateSyncActor::config, fixed at construction
    head_height,          \* chain.head().height
    state_sync_infos,     \* chain.store().iterate_state_sync_infos() keys
    timers,               \* callbacks scheduled with run_later and not yet run
    started,              \* Actor::started has run
    panicked,             \* a handler panicked: the actor is gone
    op,                   \* the handler that ran last
    out,                  \* the calls it made, in order
    needs_syncing,        \* needs_syncing computed by the last tick that got that far
    purged_anchor,        \* anchor purged by reset_data_pre_state_sync in the open episode
    ibf,                  \* an Ibf (chain/network/src/ibf.rs), apart from the actor
    contract_cache        \* a CompiledContractCache and the last cached compile

vars == <<sync_status, catchup_state_syncs, client_addr, network_info, config,
          head_height, state_sync_infos, timers, started, panicked, op, out,
          needs_syncing, purged_anchor, ibf, contract_cache>>

\* no sketch: the actor holds none
NoIbf == [op |-> "none"]
\* no contract cache: the actor compiles nothing
NoCache == [op |-> "none"]

----------------------------------------------------------------------------
(* Bounds of the model *)

\* part slots of a tracker in the parts-download status: 1..MaxParts
MaxParts == 2
\* heights of blocks, heads and peers: 0..MaxHeight
MaxHeight == 4

\* Block hashes are the heights of the blocks of one linear chain; genesis is 0
\* and CryptoHash::default() (the predecessor of genesis) is NoHash.
NoHash == -1
Hashes == 0..MaxHeight
Shards == {0, 1}
\* a StateResponse without a part
NoPart == -1
\* part ids a response may carry: in range, and beyond every tracker's part count
PartIds == 0..(MaxParts + 1)


----------------------------------------------------------------------------
(* Data *)

\* DownloadStatus { done, error }
DownloadStatus == [done : BOOLEAN, error : BOOLEAN]
NewDownload == [done |-> FALSE, error |-> FALSE]

\* ShardSyncStatus: the two arms the handler matches, and one of the others
ShardSyncStatuses ==
    {"StateDownloadHeader", "StateDownloadParts", "StateDownloadComplete"}

\* downloads[i] of the source is downloads[i + 1] here
At(downloads, i) == downloads[i + 1]
SetDone(downloads, i) == [downloads EXCEPT ![i + 1].done = TRUE]
SetError(downloads, i) == [downloads EXCEPT ![i + 1].error = TRUE]

EmptyMap == [x \in {} |-> x]

\* SyncStatus
AwaitingPeers == [tag |-> "AwaitingPeers", hash |-> NoHash, shards |-> EmptyMap,
                  current_height |-> 0, highest_height |-> 0]
NoSync == [AwaitingPeers EXCEPT !.tag = "NoSync"]
HeaderSyncStatus == [AwaitingPeers EXCEPT !.tag = "HeaderSync"]
BodySync(cur, high) == [AwaitingPeers EXCEPT !.tag = "BodySync",
                                             !.current_height = cur,
                                             !.highest_height = high]
StateSync(hash, shards) == [AwaitingPeers EXCEPT !.tag = "StateSync",
                                                 !.hash = hash,
                                                 !.shards = shards]

\* SyncStatus::is_syncing
is_syncing(status) == status.tag # "NoSync"

\* one entry of the call log
Call(name, arg) == [call |-> name, arg |-> arg]
Calls(log) == [i \in DOMAIN log |-> log[i].call]
CallsNamed(log, name) == {i \in DOMAIN log : log[i].call = name}

\* the drivers: self.state_sync, and the StateSync of a catchup entry
MainDriver == NoHash

----------------------------------------------------------------------------
(* Handler<StateSyncActorRequests>::handle, StateResponse *)

\* the tracker the response is routed to: "none", "main", "catchup", or
\* "duplicates" when the second assert!(download.is_none()) fails
FindDownload_AnyHash(status, catchups, hash, shard_id) ==
    LET main == /\ status.tag = "StateSync"
                /\ shard_id \in DOMAIN status.shards
        catchup == /\ hash \in DOMAIN catchups
                   /\ shard_id \in DOMAIN catchups[hash]
    IN  IF main /\ catchup THEN "duplicates"
        ELSE IF main THEN "main"
        ELSE IF catchup THEN "catchup"
        ELSE "none"

FindDownload(status, catchups, hash, shard_id) ==
    LET main == /\ status.tag = "StateSync"
                /\ hash = status.hash
                /\ shard_id \in DOMAIN status.shards
        catchup == /\ hash \in DOMAIN catchups
                   /\ shard_id \in DOMAIN catchups[hash]
    IN  IF main /\ catchup THEN "duplicates"
        ELSE IF main THEN "main"
        ELSE IF catchup THEN "catchup"
        ELSE "none"

\* received_requested_part, called on self.state_sync in both lookups
PartAcks(status, catchups, msg) ==
    LET ack == IF msg.part # NoPart
               THEN <<Call("received_requested_part",
                           <<MainDriver, msg.part, msg.shard_id, msg.hash>>)>>
               ELSE <<>>
    IN  (IF status.tag = "StateSync" /\ msg.hash = status.hash THEN ack ELSE <<>>)
        \o (IF msg.hash \in DOMAIN catchups THEN ack ELSE <<>>)

\* The result of the match on shard_sync_download.status: the tracker after it,
\* the storage calls made, and whether indexing downloads panicked.
Applied(download, calls, panic) ==
    [download |-> download, calls |-> calls, panic |-> panic]

ApplyHeader_ErrorWhenDone(download, msg, ok) ==
    IF msg.header
    THEN IF ~At(download.downloads, 0).done
         THEN Applied([download EXCEPT !.downloads =
                          IF ok THEN SetDone(@, 0) ELSE SetError(@, 0)],
                      <<Call("set_state_header", <<msg.shard_id, msg.hash>>)>>,
                      FALSE)
         ELSE Applied(download, <<>>, FALSE)
    ELSE Applied([download EXCEPT !.downloads = SetError(@, 0)], <<>>, FALSE)

ApplyHeader_Advance(download, msg, ok) ==
    IF msg.header
    THEN IF ~At(download.downloads, 0).done
         THEN Applied(IF ok
                      THEN [download EXCEPT !.downloads = SetDone(@, 0),
                                            !.status = "StateDownloadParts"]
                      ELSE [download EXCEPT !.downloads = SetError(@, 0)],
                      <<Call("set_state_header", <<msg.shard_id, msg.hash>>)>>,
                      FALSE)
         ELSE Applied(download, <<>>, FALSE)
    ELSE IF ~At(download.downloads, 0).done
         THEN Applied([download EXCEPT !.downloads = SetError(@, 0)], <<>>, FALSE)
         ELSE Applied(download, <<>>, FALSE)

ApplyHeader_DoneOnFailure(download, msg, ok) ==
    IF msg.header
    THEN IF ~At(download.downloads, 0).done
         THEN Applied([download EXCEPT !.downloads = SetDone(@, 0)],
                      <<Call("set_state_header", <<msg.shard_id, msg.hash>>)>>,
                      FALSE)
         ELSE Applied(download, <<>>, FALSE)
    ELSE IF ~At(download.downloads, 0).done
         THEN Applied([download EXCEPT !.downloads = SetError(@, 0)], <<>>, FALSE)
         ELSE Applied(download, <<>>, FALSE)

\* ShardSyncStatus::StateDownloadHeader
ApplyHeader(download, msg, ok) ==
    IF msg.header
    THEN IF ~At(download.downloads, 0).done
         THEN Applied([download EXCEPT !.downloads =
                          IF ok THEN SetDone(@, 0) ELSE SetError(@, 0)],
                      <<Call("set_state_header", <<msg.shard_id, msg.hash>>)>>,
                      FALSE)
         ELSE Applied(download, <<>>, FALSE)
    ELSE IF ~At(download.downloads, 0).done
         THEN Applied([download EXCEPT !.downloads = SetError(@, 0)], <<>>, FALSE)
         ELSE Applied(download, <<>>, FALSE)

PartSlot_WrongCount(download, msg, ok) ==
    LET num_parts == Len(download.downloads)
        part_id == msg.part
    IN  IF part_id >= num_parts
        THEN Applied(download, <<>>, TRUE)
        ELSE IF ~At(download.downloads, part_id).done
        THEN Applied([download EXCEPT !.downloads =
                         IF ok THEN SetDone(@, part_id) ELSE SetError(@, part_id)],
                     <<Call("set_state_part",
                            <<msg.shard_id, msg.hash, part_id, part_id + 1>>)>>,
                     FALSE)
        ELSE Applied(download, <<>>, FALSE)

PartSlot_ResetLater(download, msg, ok) ==
    LET num_parts == Len(download.downloads)
        part_id == msg.part
    IN  IF part_id >= num_parts
        THEN Applied(download, <<>>, TRUE)
        ELSE IF ~At(download.downloads, part_id).done
        THEN Applied([download EXCEPT !.downloads =
                         IF ok
                         THEN [j \in DOMAIN @ |->
                                 IF j = part_id + 1 THEN [@[j] EXCEPT !.done = TRUE]
                                 ELSE IF j > part_id + 1 THEN [@[j] EXCEPT !.done = FALSE]
                                 ELSE @[j]]
                         ELSE SetError(@, part_id)],
                     <<Call("set_state_part",
                            <<msg.shard_id, msg.hash, part_id, num_parts>>)>>,
                     FALSE)
        ELSE Applied(download, <<>>, FALSE)

\* downloads[part_id as usize] of a Vec: an index past the end panics
PartSlot(download, msg, ok) ==
    LET num_parts == Len(download.downloads)
        part_id == msg.part
    IN  IF part_id >= num_parts
        THEN Applied(download, <<>>, TRUE)
        ELSE IF ~At(download.downloads, part_id).done
        THEN Applied([download EXCEPT !.downloads =
                         IF ok THEN SetDone(@, part_id) ELSE SetError(@, part_id)],
                     <<Call("set_state_part",
                            <<msg.shard_id, msg.hash, part_id, num_parts>>)>>,
                     FALSE)
        ELSE Applied(download, <<>>, FALSE)

ApplyPart_OffByOne(download, msg, ok) ==
    IF msg.part # NoPart
    THEN IF msg.part > Len(download.downloads)
         THEN Applied(download, <<>>, FALSE)
         ELSE PartSlot(download, msg, ok)
    ELSE Applied(download, <<>>, FALSE)

\* ShardSyncStatus::StateDownloadParts
ApplyPart(download, msg, ok) ==
    IF msg.part # NoPart
    THEN IF msg.part >= Len(download.downloads)
         THEN Applied(download, <<>>, FALSE)
         ELSE PartSlot(download, msg, ok)
    ELSE Applied(download, <<>>, FALSE)

ApplyResponse_ErrorWhenDone(download, msg, ok) ==
    CASE download.status = "StateDownloadHeader" -> ApplyHeader(download, msg, ok)
      [] download.status = "StateDownloadParts" -> ApplyPart(download, msg, ok)
      [] OTHER -> Applied([download EXCEPT !.downloads = SetError(@, 0)], <<>>, FALSE)

\* match shard_sync_download.status
ApplyResponse(download, msg, ok) ==
    CASE download.status = "StateDownloadHeader" -> ApplyHeader(download, msg, ok)
      [] download.status = "StateDownloadParts" -> ApplyPart(download, msg, ok)
      [] OTHER -> Applied(download, <<>>, FALSE)

----------------------------------------------------------------------------
(* The messages of StateSyncActorRequests *)

\* the anchors of the episodes the handlers are checked on: two blocks of the chain
MainAnchor == MaxHeight - 1
CatchupAnchor == MaxHeight

\* StateResponseInfo: sync_hash, shard_id, and the header and part of the response
StateResponses ==
    [hash : {MainAnchor, CatchupAnchor}, shard_id : Shards, header : BOOLEAN, part : {NoPart} \cup PartIds]

\* NetworkInfo: no peer, or one highest-height peer at some height
NoPeers == [num_active_peers |-> 0, highest_height_peers |-> <<>>]
NetworkInfos ==
    {NoPeers} \cup {[num_active_peers |-> 1, highest_height_peers |-> <<h>>] :
                        h \in 0..MaxHeight}

HandlerFrame ==
    UNCHANGED <<config, head_height, state_sync_infos, timers, started,
                needs_syncing, purged_anchor, ibf, contract_cache>>

\* StateSyncActorRequests::StateResponse; ok is the result of the storage call
HandleStateResponse(msg, ok) ==
    /\ started /\ ~panicked
    /\ op' = "StateResponse"
    /\ LET found == FindDownload(sync_status, catchup_state_syncs, msg.hash, msg.shard_id)
           acks == PartAcks(sync_status, catchup_state_syncs, msg)
       IN  CASE found = "duplicates" ->
                  /\ panicked' = TRUE
                  /\ out' = acks
                  /\ UNCHANGED <<sync_status, catchup_state_syncs>>
             [] found = "main" ->
                  LET r == ApplyResponse(sync_status.shards[msg.shard_id], msg, ok)
                  IN  /\ sync_status' =
                             [sync_status EXCEPT !.shards[msg.shard_id] = r.download]
                      /\ out' = acks \o r.calls
                      /\ panicked' = r.panic
                      /\ UNCHANGED catchup_state_syncs
             [] found = "catchup" ->
                  LET r == ApplyResponse(catchup_state_syncs[msg.hash][msg.shard_id],
                                         msg, ok)
                  IN  /\ catchup_state_syncs' =
                             [catchup_state_syncs EXCEPT
                                 ![msg.hash][msg.shard_id] = r.download]
                      /\ out' = acks \o r.calls
                      /\ panicked' = r.panic
                      /\ UNCHANGED sync_status
             [] OTHER ->
                  /\ out' = acks
                  /\ UNCHANGED <<sync_status, catchup_state_syncs, panicked>>
    /\ UNCHANGED <<client_addr, network_info>>
    /\ HandlerFrame

\* StateSyncActorRequests::ReceivedRequestedPart
HandleReceivedRequestedPart(part_id, shard_id, hash) ==
    /\ started /\ ~panicked
    /\ op' = "ReceivedRequestedPart"
    /\ out' = <<Call("received_requested_part",
                     <<MainDriver, part_id, shard_id, hash>>)>>
    /\ UNCHANGED <<sync_status, catchup_state_syncs, client_addr, network_info,
                   panicked>>
    /\ HandlerFrame

\* StateSyncActorRequests::ClientAddr
HandleClientAddr ==
    /\ started /\ ~panicked
    /\ op' = "ClientAddr"
    /\ out' = <<>>
    /\ client_addr' = TRUE
    /\ UNCHANGED <<sync_status, catchup_state_syncs, network_info, panicked>>
    /\ HandlerFrame

\* StateSyncActorRequests::NetworkInfo
HandleNetworkInfo(info) ==
    /\ started /\ ~panicked
    /\ op' = "NetworkInfo"
    /\ out' = <<>>
    /\ network_info' = info
    /\ UNCHANGED <<sync_status, catchup_state_syncs, client_addr, panicked>>
    /\ HandlerFrame

----------------------------------------------------------------------------
(* Configuration and chain *)

\* ClientConfig values the tick compares heights and peers with
sync_height_threshold == 1
block_header_fetch_horizon == 1
state_fetch_horizon == 1
min_num_peers == 1

\* the length of an epoch, in blocks
EpochLength == 2

\* self.chain.genesis().hash()
Genesis == 0

\* BlockHeader::prev_hash on the linear chain; genesis has no predecessor
prev_hash(hash) == IF hash = 0 THEN NoHash ELSE hash - 1

\* The first block of the epoch of block `hash`.  Genesis is an epoch of its own
\* and the first epoch after it has the same epoch id, so for a block of either
\* the walk back over blocks of one epoch id ends at genesis.
EpochStart(hash) ==
    LET epoch == IF hash = 0 THEN 0 ELSE ((hash - 1) \div EpochLength) + 1
    IN  IF epoch <= 1 THEN 0 ELSE (epoch - 1) * EpochLength + 1

\* results of a fallible call
Ok(v) == [kind |-> "ok", value |-> v]
Err == [kind |-> "err", value |-> NoHash]
Panic == [kind |-> "panic", value |-> NoHash]

\* chain.get_block_header(hash)?.prev_hash(), `steps` times
RECURSIVE WalkBack(_, _)
WalkBack(hash, steps) ==
    IF steps = 0 THEN Ok(hash)
    ELSE IF hash = NoHash THEN Err
    ELSE WalkBack(prev_hash(hash), steps - 1)

\* StateSync::get_epoch_start_sync_hash
get_epoch_start_sync_hash(hash) ==
    IF hash = NoHash THEN Err ELSE Ok(EpochStart(hash))

\* StateSyncActor::find_sync_hash, with the header head at height header_head
find_sync_hash_NoRedo(header_head) ==
    LET sync_hash == WalkBack(prev_hash(header_head), state_fetch_horizon)
    IN  IF sync_hash.kind = "err" THEN Err
        ELSE get_epoch_start_sync_hash(sync_hash.value)

find_sync_hash(header_head) ==
    LET sync_hash == WalkBack(prev_hash(header_head), state_fetch_horizon)
    IN  IF sync_hash.kind = "err" THEN Err
        ELSE LET epoch_start_sync_hash == get_epoch_start_sync_hash(sync_hash.value)
             IN  IF epoch_start_sync_hash.kind = "err" THEN Err
                 ELSE IF epoch_start_sync_hash.value = Genesis
                 THEN IF EpochStart(header_head) # Genesis
                      THEN Ok(EpochStart(header_head))
                      ELSE Panic
                 ELSE epoch_start_sync_hash

\* highest_height_peer: the peer of highest_height_peers, if there is one
highest_height_peer(info) ==
    IF info.highest_height_peers = <<>> THEN NoHash ELSE info.highest_height_peers[1]

\* StateSyncActor::syncing_info: <<needs_syncing, highest_height>>
syncing_info_NoHysteresis(status, info, head) ==
    IF highest_height_peer(info) = NoHash THEN <<FALSE, 0>>
    ELSE <<highest_height_peer(info) > head + sync_height_threshold,
           highest_height_peer(info)>>

syncing_info_NoPeerKeepsPhase(status, info, head) ==
    IF highest_height_peer(info) = NoHash THEN <<is_syncing(status), 0>>
    ELSE IF is_syncing(status)
    THEN <<~(highest_height_peer(info) <= head), highest_height_peer(info)>>
    ELSE <<highest_height_peer(info) > head + sync_height_threshold,
           highest_height_peer(info)>>

syncing_info(status, info, head) ==
    IF highest_height_peer(info) = NoHash THEN <<FALSE, 0>>
    ELSE IF is_syncing(status)
    THEN <<~(highest_height_peer(info) <= head), highest_height_peer(info)>>
    ELSE <<highest_height_peer(info) > head + sync_height_threshold,
           highest_height_peer(info)>>

\* u64::saturating_sub
saturating_sub_Add(x, y) == x + y
saturating_sub(x, y) == IF x >= y THEN x - y ELSE 0

----------------------------------------------------------------------------
(* The drivers and the chain calls with callbacks, as their callers see them *)

\* ShardSyncDownload::new: the header status and the one slot of the header
NewShardSyncDownload ==
    [status |-> "StateDownloadHeader", downloads |-> <<NewDownload>>]
\* the tracker after the driver has read num_parts from the applied header
PartsDownload(n) ==
    [status |-> "StateDownloadParts", downloads |-> [i \in 1..n |-> NewDownload]]
\* the tracker after the driver has seen every part done
CompleteDownload(n) ==
    [status |-> "StateDownloadComplete",
     downloads |-> [i \in 1..n |-> [done |-> TRUE, error |-> FALSE]]]

\* the shards the node cares about, and the shards of a StateSyncInfo
TrackedShards == {0}

\* What StateSync::run may do to the tracker of a shard: make it, give it its
\* part slots once the header is done, finish it once every part is done, ask
\* again for what failed, or leave it.
TrackerSteps(t) ==
    {t}
    \cup (IF t.status = "StateDownloadHeader" /\ At(t.downloads, 0).done
          THEN {PartsDownload(n) : n \in 1..MaxParts} ELSE {})
    \cup (IF t.status = "StateDownloadParts"
             /\ \A i \in DOMAIN t.downloads : t.downloads[i].done
          THEN {[t EXCEPT !.status = "StateDownloadComplete"]} ELSE {})
    \cup (IF t.status # "StateDownloadComplete"
             /\ \E i \in DOMAIN t.downloads :
                   t.downloads[i].error /\ ~t.downloads[i].done
          THEN {[t EXCEPT !.downloads =
                    [i \in DOMAIN @ |->
                       IF @[i].done THEN @[i] ELSE [@[i] EXCEPT !.error = FALSE]]]}
          ELSE {})

ShardMapSteps(shards) ==
    IF TrackedShards \subseteq DOMAIN shards
    THEN {[s \in DOMAIN shards |-> IF s = 0 THEN t ELSE shards[s]] :
             t \in TrackerSteps(shards[0])}
    ELSE {shards, [s \in TrackedShards |-> NewShardSyncDownload]}

\* StateSync::run: the result and the tracker map it leaves in new_shard_sync
StateSyncResults == {"Err", "Unchanged", "Changed(false)", "Changed(true)", "Completed"}
\* it returns Completed when it leaves the tracker of every shard it tracks in
\* the complete status, and only then; it may fail or ask for the block before
AllDone(shards) ==
    \A s \in TrackedShards :
       s \in DOMAIN shards /\ shards[s].status = "StateDownloadComplete"
StateSyncRuns(shards) ==
    {r \in [result : StateSyncResults, shards : ShardMapSteps(shards)] :
        r.result = "Completed" => AllDone(r.shards)}

\* HeaderSync::run and BlockSync::run write sync_status or leave it
HeaderSyncRuns(status) ==
    [result : {"Ok", "Err"}, status : {status, HeaderSyncStatus}]
BlockSyncRuns(status, head, highest_height) ==
    [result : {"Err", "Ok(false)", "Ok(true)"},
     status : {status, BodySync(head, highest_height)}]

\* what reset_heads_post_state_sync and catchup_blocks hand to their callbacks:
\* accepted blocks, the missing chunks of each block with some, challenges
Outputs(accepted, missing, challenges) ==
    [accepted |-> accepted, missing |-> missing, challenges |-> challenges]
ChainOutputs ==
    {Outputs(<<>>, <<>>, <<>>),
     Outputs(<<1, 2>>, <<<<1>>, <<2, 3>>>>, <<1>>)}

\* drain(..).flatten()
RECURSIVE Flatten(_)
Flatten(seqs) == IF seqs = <<>> THEN <<>> ELSE Head(seqs) \o Flatten(Tail(seqs))

----------------------------------------------------------------------------
(* StateSyncActor::sync, start_sync, catchup and run_catchup.                *)
(*                                                                          *)
(* A run of one of them takes the fields of the actor it may write, as a    *)
(* record, to the set of records it may leave: one for each choice of the   *)
(* results of the calls it makes.                                           *)

Actor ==
    [sync_status |-> sync_status,
     catchup_state_syncs |-> catchup_state_syncs,
     state_sync_infos |-> state_sync_infos,
     timers |-> timers,
     panicked |-> panicked,
     out |-> out,
     needs_syncing |-> needs_syncing,
     purged_anchor |-> purged_anchor]

Install(a) ==
    /\ sync_status' = a.sync_status
    /\ catchup_state_syncs' = a.catchup_state_syncs
    /\ state_sync_infos' = a.state_sync_infos
    /\ timers' = a.timers
    /\ panicked' = a.panicked
    /\ out' = a.out
    /\ needs_syncing' = a.needs_syncing
    /\ purged_anchor' = a.purged_anchor

Emit(a, name, arg) == [a EXCEPT !.out = Append(@, Call(name, arg))]
Panicked(a) == [a EXCEPT !.panicked = TRUE]

\* near_performance_metrics::actix::run_later(ctx, .., period, callback)
RunLater(a, period, callback) ==
    [Emit(a, "run_later", <<>>) EXCEPT
        !.out[Len(a.out) + 1].call = "run_later(" \o period \o ", " \o callback \o ")",
        !.timers[callback] = @ + 1]

\* the Err arm of unwrap_or_run_later!
SyncLater_Idle(a) == RunLater(a, "sync_check_period", "sync")
SyncLater(a) == RunLater(a, "sync_step_period", "sync")

\* self.client_addr.clone().unwrap().do_send(message): with no address the
\* unwrap panics before the message is sent
SendToClient(a, message, arg) ==
    IF client_addr THEN Emit(a, message, arg)
    ELSE Panicked(Emit(a, message \o " -> unwrap on None", <<>>))

\* chain.block_exists(&hash), and what it returns for the two blocks of a tick:
\* each is there or not, or one of the reads fails
BlockExistsResults == {"Ok(false)", "Ok(true)", "Err"}
BlockExistsRuns ==
    [1..2 -> {"Ok(false)", "Ok(true)"}]
    \cup {<<"Err", "Ok(false)">>, <<"Ok(true)", "Err">>}

RequestBlocks_Unchecked(a, hashes, exists, peer) ==
    LET RECURSIVE Go(_, _)
        Go(b, i) ==
            IF i > Len(hashes) THEN b
            ELSE LET b1 == Emit(b, "block_exists -> " \o exists[i], <<hashes[i]>>)
                 IN  Go(IF exists[i] # "Err"
                        THEN Emit(b1, "BlockRequest", <<hashes[i], peer>>) ELSE b1,
                        i + 1)
    IN  Go(a, 1)

\* request_block_by_hash for each of hashes, exists[i] being what block_exists
\* returns for hashes[i]: the request is sent to peer when it is Ok(false)
RequestBlocks(a, hashes, exists, peer) ==
    LET RECURSIVE Go(_, _)
        Go(b, i) ==
            IF i > Len(hashes) THEN b
            ELSE LET b1 == Emit(b, "block_exists -> " \o exists[i], <<hashes[i]>>)
                 IN  Go(IF exists[i] = "Ok(false)"
                        THEN Emit(b1, "BlockRequest", <<hashes[i], peer>>) ELSE b1,
                        i + 1)
    IN  Go(a, 1)

\* the phase the tick leaves after StateSyncResult::Completed
FinishStateSync_KeepPhase(a) == [a EXCEPT !.purged_anchor = NoHash]
FinishStateSync(a) ==
    [a EXCEPT !.sync_status = BodySync(0, 0), !.purged_anchor = NoHash]

\* what the tick sends after reset_heads_post_state_sync has returned Ok
ForwardOutputs_BlocksFirst(a, o) ==
    LET a2 == SendToClient(a, "ProcessAcceptedBlocked", o.accepted)
        a3 == SendToClient(a2, "SendChallenges", o.challenges)
    IN  IF a2.panicked THEN {a2}
        ELSE {Panicked(a3), Emit(a3, "request_chunks", Flatten(o.missing))}

ForwardOutputs(a, o) ==
    LET a2 == SendToClient(a, "SendChallenges", o.challenges)
        a3 == SendToClient(a2, "ProcessAcceptedBlocked", o.accepted)
    IN  IF a2.panicked THEN {a2}
        ELSE \* header_head().expect(..) panics when the read fails
             {Panicked(a3), Emit(a3, "request_chunks", Flatten(o.missing))}

\* StateSyncResult::Completed of the main episode
SyncCompleted(a, sync_hash) ==
    {SyncLater(Emit(a, "reset_heads_post_state_sync -> Err", <<sync_hash>>))}
    \cup UNION {
        {IF b.panicked THEN b
         ELSE RunLater(FinishStateSync(b), "sync_step_period", "sync") :
            b \in ForwardOutputs(
                    Emit(a, "reset_heads_post_state_sync -> Ok", <<sync_hash>>), o)}
        : o \in ChainOutputs}

\* StateSyncResult::Changed(fetch_block) of the main episode
SyncChanged(a, sync_hash, shards, fetch_block) ==
    LET a1 == [a EXCEPT !.sync_status = StateSync(sync_hash, shards)]
        end(b) == RunLater(b, "sync_step_period", "sync")
    IN  IF fetch_block /\ highest_height_peer(network_info) # NoHash
        THEN \* get_block_header(&sync_hash) fails and nothing is requested, or
             \* the predecessor and the anchor are looked up, in this order
             {end(Emit(a1, "get_block_header -> Err", <<sync_hash>>))}
             \cup {end(RequestBlocks(Emit(a1, "get_block_header -> Ok", <<sync_hash>>),
                                     <<prev_hash(sync_hash), sync_hash>>, exists,
                                     highest_height_peer(network_info))) :
                     exists \in BlockExistsRuns}
        ELSE {end(a1)}

\* the flags of the slots of the tracker of the tracked shard in a tracker map,
\* slot by slot: 1 for done, 2 for error, 3 for both
FlagsOf(shards) ==
    IF 0 \in DOMAIN shards
    THEN [i \in DOMAIN shards[0].downloads |->
            (IF shards[0].downloads[i].done THEN 1 ELSE 0)
            + (IF shards[0].downloads[i].error THEN 2 ELSE 0)]
    ELSE <<>>

ShardSyncOf_Fresh(status) == EmptyMap
\* let mut new_shard_sync: the clone of the trackers of the phase, or a new map
ShardSyncOf(status) ==
    IF status.tag = "StateSync" THEN status.shards ELSE EmptyMap

SyncHashOf_Resolve(a, header_head) ==
    {[a |-> Emit(a, "find_sync_hash -> " \o f.kind, <<f.value>>), f |-> f] :
        f \in {Err, find_sync_hash(header_head)}}
\* the anchor of the state step, with the actor as the step leaves it: the
\* anchor of the phase (SyncStatus::StateSync(sync_hash, ..) => sync_hash), or
\* self.find_sync_hash(), in which a chain read fails or the walk decides
SyncHashOf(a, header_head) ==
    IF a.sync_status.tag = "StateSync"
    THEN {[a |-> a, f |-> Ok(a.sync_status.hash)]}
    ELSE {[a |-> Emit(a, "find_sync_hash -> " \o f.kind, <<f.value>>), f |-> f] :
             f \in {Err, find_sync_hash(header_head)}}

\* the state sync step of the tick (if sync_state { .. })
SyncState(a, header_head) ==
    LET in_state_sync == a.sync_status.tag = "StateSync"
        found == SyncHashOf(a, header_head)
    IN  UNION {
          IF p.f.kind = "err" THEN {SyncLater(p.a)}
          ELSE IF p.f.kind = "panic" THEN {Panicked(p.a)}
          ELSE
            LET sync_hash == p.f.value
                new_shard_sync == ShardSyncOf(a.sync_status)
                just_enter_state_sync == ~in_state_sync
                purge == ~config.archive /\ just_enter_state_sync
                a0 == p.a
                a1 == IF purge
                      THEN [Emit(a0, "reset_data_pre_state_sync -> Ok", <<sync_hash>>)
                               EXCEPT !.purged_anchor = sync_hash]
                      ELSE a0
                run(r) == Emit(a1, "state_sync.run -> " \o r.result,
                               <<MainDriver, sync_hash>> \o FlagsOf(new_shard_sync))
            IN  (IF purge
                 THEN {SyncLater(Emit(a0, "reset_data_pre_state_sync -> Err",
                                      <<sync_hash>>))}
                 ELSE {})
                \cup UNION {
                      CASE r.result = "Err" -> {SyncLater(run(r))}
                        [] r.result = "Unchanged" ->
                             {RunLater(run(r), "sync_step_period", "sync")}
                        [] r.result = "Changed(false)" ->
                             SyncChanged(run(r), sync_hash, r.shards, FALSE)
                        [] r.result = "Changed(true)" ->
                             SyncChanged(run(r), sync_hash, r.shards, TRUE)
                        [] r.result = "Completed" -> SyncCompleted(run(r), sync_hash)
                      : r \in StateSyncRuns(new_shard_sync)}
          : p \in found}

\* the tick from header_sync.run on (the else arm of !self.needs_syncing(..))
SyncSteps(a, highest_height) ==
    UNION {
      LET a1 == Emit([a EXCEPT !.sync_status = h.status,
                               !.purged_anchor =
                                   IF a.sync_status.tag = "StateSync"
                                      /\ h.status.tag # "StateSync"
                                   THEN NoHash ELSE @],
                     "header_sync.run -> " \o h.result,
                     <<IF h.status = a.sync_status THEN 0 ELSE 1>>)
      IN  IF h.result = "Err" THEN {SyncLater(a1)}
          ELSE \* self.chain.header_head() fails, or the header head is at a height,
               \* which is never below the height of the head
            {SyncLater(Emit(a1, "header_head -> Err", <<>>))}
            \cup UNION {
              LET a1h == Emit(a1, "header_head -> Ok", <<header_head>>)
              IN
              IF a1h.sync_status.tag = "StateSync"
              THEN SyncState(a1h, header_head)
              ELSE IF header_head
                        >= saturating_sub(highest_height, block_header_fetch_horizon)
              THEN UNION {
                     LET a2 == Emit([a1h EXCEPT !.sync_status = b.status],
                                    "block_sync.run -> " \o b.result,
                                    <<IF b.status = a1h.sync_status THEN 0 ELSE 1>>)
                     IN  CASE b.result = "Err" -> {SyncLater(a2)}
                           [] b.result = "Ok(true)" -> SyncState(a2, header_head)
                           [] b.result = "Ok(false)" ->
                                {RunLater([a2 EXCEPT !.purged_anchor = NoHash],
                                          "sync_step_period", "sync")}
                     : b \in BlockSyncRuns(a1h.sync_status, head_height, highest_height)}
              ELSE {RunLater([a1h EXCEPT !.purged_anchor = NoHash],
                             "sync_step_period", "sync")}
              : header_head \in head_height..MaxHeight}
      : h \in HeaderSyncRuns(a.sync_status)}

\* StateSyncActor::sync
SyncRun(a0) ==
    LET a == Emit(a0, "sync", <<>>)
        currently_syncing == is_syncing(a.sync_status)
        info == syncing_info(a.sync_status, network_info, head_height)
        a1 == Emit([a EXCEPT !.needs_syncing = IF info[1] THEN "true" ELSE "false"],
                   "syncing_info -> Ok", <<IF info[1] THEN 1 ELSE 0, info[2]>>)
    IN  \* self.syncing_info() fails when chain.head() does
        {SyncLater(Emit(a, "syncing_info -> Err", <<>>))}
        \cup
        (IF ~info[1]
         THEN IF currently_syncing
              THEN LET a2 == [a1 EXCEPT !.sync_status = NoSync,
                                        !.purged_anchor = NoHash]
                       a3 == SendToClient(a2, "CheckSendAnnounceAccount", <<>>)
                   IN  \* self.chain.head() fails, or the announcement is sent
                       {SyncLater(Emit(a2, "head -> Err", <<>>)),
                        IF a3.panicked THEN a3
                        ELSE RunLater(a3, "sync_check_period", "sync")}
              ELSE {RunLater([a1 EXCEPT !.purged_anchor = NoHash],
                             "sync_check_period", "sync")}
         ELSE SyncSteps(a1, info[2]))

StartSyncRun_NoWait(a0) == SyncRun(Emit(a0, "start_sync", <<>>))
\* StateSyncActor::start_sync
StartSyncRun(a0) ==
    LET a == Emit(a0, "start_sync", <<>>)
    IN  IF network_info.num_active_peers < min_num_peers /\ ~config.skip_sync_wait
        THEN {RunLater(a, "sync_step_period", "start_sync")}
        ELSE SyncRun(a)

\* results of run_catchup
CatchupOk(accepted) == [kind |-> "ok", accepted |-> accepted]
CatchupErr == [kind |-> "err", accepted |-> <<>>]
CatchupPanic == [kind |-> "panic", accepted |-> <<>>]
Pass(a, result) == [a |-> a, result |-> result]

\* chain.store().iterate_state_sync_infos(): the anchors in the order of their keys
RECURSIVE Ascending(_)
Ascending(hashes) ==
    IF hashes = {} THEN <<>>
    ELSE LET least == CHOOSE h \in hashes : \A g \in hashes : h <= g
         IN  <<least>> \o Ascending(hashes \ {least})

\* run_catchup after catchup_blocks has returned Ok
CatchupOutputs(a, o) ==
    LET a2 == SendToClient(a, "SendChallenges", o.challenges)
    IN  IF a2.panicked THEN {Pass(a2, CatchupPanic)}
        ELSE \* &self.chain.header_head()? returns the error before the request
             {Pass(a2, CatchupErr),
              Pass(Emit(a2, "request_chunks", Flatten(o.missing)),
                   CatchupOk(o.accepted))}

CatchupCompleted_ToBodySync(a, sync_hash) ==
    {Pass(Emit(a, "catchup_blocks -> Err", <<sync_hash>>), CatchupErr)}
    \cup UNION {
        CatchupOutputs(
            Emit([a EXCEPT !.state_sync_infos = @ \ {sync_hash},
                           !.sync_status = BodySync(head_height, 0)],
                 "catchup_blocks -> Ok", <<sync_hash>>), o)
        : o \in ChainOutputs}

\* StateSyncResult::Completed of a catchup entry
CatchupCompleted(a, sync_hash) ==
    {Pass(Emit(a, "catchup_blocks -> Err", <<sync_hash>>), CatchupErr)}
    \cup UNION {
        CatchupOutputs(
            Emit([a EXCEPT !.state_sync_infos = @ \ {sync_hash}],
                 "catchup_blocks -> Ok", <<sync_hash>>), o)
        : o \in ChainOutputs}

\* StateSyncActor::run_catchup, from the anchor at the head of todo on
\* (the store keys each StateSyncInfo by its epoch_tail_hash, so the assert_eq!
\* on the two holds for every entry it returns)
RECURSIVE RunCatchupFrom(_, _)
RunCatchupFrom(a, todo) ==
    IF todo = <<>> THEN {Pass(a, CatchupOk(<<>>))}
    ELSE
      LET sync_hash == Head(todo)
          new_shard_sync == IF sync_hash \in DOMAIN a.catchup_state_syncs
                            THEN a.catchup_state_syncs[sync_hash] ELSE EmptyMap
      IN  UNION {
            LET a1 == Emit([a EXCEPT !.catchup_state_syncs =
                                        (sync_hash :> r.shards) @@ @],
                           "state_sync.run -> " \o r.result, <<sync_hash, sync_hash>>)
            IN  CASE r.result = "Err" -> {Pass(a1, CatchupErr)}
                  [] r.result = "Unchanged" -> RunCatchupFrom(a1, Tail(todo))
                  [] r.result = "Changed(false)" -> RunCatchupFrom(a1, Tail(todo))
                  [] r.result = "Changed(true)" -> {Pass(Panicked(a1), CatchupPanic)}
                  [] r.result = "Completed" -> CatchupCompleted(a1, sync_hash)
            : r \in StateSyncRuns(new_shard_sync)}

run_catchup(a) == RunCatchupFrom(a, Ascending(a.state_sync_infos))

\* StateSyncActor::catchup
CatchupRun(a0) ==
    UNION {
      CASE p.result.kind = "panic" -> {p.a}
        [] p.result.kind = "err" -> {RunLater(p.a, "catchup_step_period", "catchup")}
        [] p.result.kind = "ok" ->
             LET b == SendToClient(p.a, "ProcessAcceptedBlocked", p.result.accepted)
             IN  {IF b.panicked THEN b
                  ELSE RunLater(b, "catchup_step_period", "catchup")}
      : p \in run_catchup(Emit(a0, "catchup", <<>>))}

\* what no run of the actor writes
ActorFrame ==
    UNCHANGED <<client_addr, network_info, config, head_height, ibf, contract_cache>>

\* Actor::started
Started ==
    /\ ~started /\ ~panicked
    /\ started' = TRUE
    /\ op' = "started"
    /\ \E a \in StartSyncRun([Actor EXCEPT !.out = <<>>]) :
          IF a.panicked THEN Install(a)
          ELSE \E b \in CatchupRun(a) : Install(b)
    /\ ActorFrame

\* the callbacks handed to run_later
Timer(callback) ==
    /\ started /\ ~panicked
    /\ timers[callback] > 0
    /\ op' = callback
    /\ UNCHANGED started
    /\ ActorFrame

StartSyncTimer ==
    /\ Timer("start_sync")
    /\ \E a \in StartSyncRun([Actor EXCEPT !.out = <<>>,
                                           !.timers["start_sync"] = @ - 1]) :
          Install(a)

SyncTimer ==
    /\ Timer("sync")
    /\ \E a \in SyncRun([Actor EXCEPT !.out = <<>>, !.timers["sync"] = @ - 1]) :
          Install(a)

CatchupTimer ==
    /\ Timer("catchup")
    /\ \E a \in CatchupRun([Actor EXCEPT !.out = <<>>, !.timers["catchup"] = @ - 1]) :
          Install(a)

\* the client actor moves the head of the chain the two actors share
HeadAdvances ==
    /\ ~panicked
    /\ head_height < MaxHeight
    /\ head_height' = head_height + 1
    /\ op' = "head"
    /\ out' = <<>>
    /\ UNCHANGED <<sync_status, catchup_state_syncs, client_addr, network_info,
                   config, state_sync_infos, timers, started, panicked,
                   needs_syncing, purged_anchor, ibf, contract_cache>>

----------------------------------------------------------------------------
(* The handlers alone, on an actor that holds trackers.                    *)
(*                                                                         *)
(* The trackers are made and advanced by StateSync::run, outside the actor;*)
(* the initial states are a running actor right after a driver call: every *)
(* tracker is as the driver leaves it (a new tracker awaiting its header,  *)
(* a tracker given its n part slots, a finished tracker), in the main      *)
(* episode, in a catchup entry, or in both for the same anchor.            *)

DriverTrackers ==
    {NewShardSyncDownload} \cup {PartsDownload(n) : n \in 1..MaxParts}
                           \cup {CompleteDownload(n) : n \in 1..MaxParts}

Running ==
    /\ client_addr = TRUE
    /\ network_info = NoPeers
    /\ config = [archive |-> FALSE, skip_sync_wait |-> FALSE]
    /\ head_height = 0
    /\ state_sync_infos = DOMAIN catchup_state_syncs
    /\ timers = [start_sync |-> 0, sync |-> 1, catchup |-> 1]
    /\ started = TRUE
    /\ panicked = FALSE
    /\ op = "init"
    /\ out = <<>>
    /\ needs_syncing = "unset"
    /\ purged_anchor = NoHash
    /\ ibf = NoIbf
    /\ contract_cache = NoCache

InitHandler ==
    /\ \/ /\ sync_status \in
                 {NoSync, StateSync(MainAnchor, EmptyMap)}
                 \cup {StateSync(MainAnchor, 0 :> t) : t \in DriverTrackers}
                 \cup {StateSync(MainAnchor, (0 :> t) @@ (1 :> PartsDownload(1))) :
                          t \in DriverTrackers}
          /\ catchup_state_syncs \in
                 {EmptyMap, MainAnchor :> (0 :> PartsDownload(1))}
       \/ /\ sync_status \in {NoSync, StateSync(MainAnchor, EmptyMap)}
          /\ catchup_state_syncs \in
                 {CatchupAnchor :> EmptyMap}
                 \cup {CatchupAnchor :> (0 :> t) : t \in DriverTrackers}
    /\ Running

NextHandler ==
    \/ \E msg \in StateResponses, ok \in BOOLEAN : HandleStateResponse(msg, ok)
    \/ HandleReceivedRequestedPart(0, 0, MainAnchor)
    \/ HandleClientAddr
    \/ \E info \in {i \in NetworkInfos : i.num_active_peers = 0
                                          \/ i.highest_height_peers[1] = MaxHeight} :
          HandleNetworkInfo(info)

SpecHandler == InitHandler /\ [][NextHandler]_vars

----------------------------------------------------------------------------
(* The actor from its construction: the main loop, the catchup loop and the *)
(* messages, with one shard tracked and at most one anchor awaiting catchup *)

\* StateSyncActor::new; the node waits for peers and its chain has blocks
StartHeight == MaxHeight - 2
Init ==
    /\ sync_status = AwaitingPeers
    /\ catchup_state_syncs = EmptyMap
    /\ client_addr = FALSE
    /\ network_info = NoPeers
    /\ config \in [archive : BOOLEAN, skip_sync_wait : {FALSE}]
    /\ head_height = StartHeight
    /\ state_sync_infos \in {{}, {CatchupAnchor}}
    /\ timers = [start_sync |-> 0, sync |-> 0, catchup |-> 0]
    /\ started = FALSE
    /\ panicked = FALSE
    /\ op = "new"
    /\ out = <<>>
    /\ needs_syncing = "unset"
    /\ purged_anchor = NoHash
    /\ ibf = NoIbf
    /\ contract_cache = NoCache

\* the responses peers send for the main episode: the header, or the first part
MainResponses ==
    {msg \in StateResponses :
        /\ msg.hash = MainAnchor /\ msg.shard_id \in TrackedShards
        /\ IF msg.header THEN msg.part = NoPart ELSE msg.part = 0}

\* the peers are gone, or the best of them is at MaxHeight
PeersAtMaxHeight ==
    {info \in NetworkInfos :
        info.highest_height_peers # <<>> => info.highest_height_peers[1] = MaxHeight}

Next ==
    \/ Started
    \/ StartSyncTimer
    \/ SyncTimer
    \/ CatchupTimer
    \/ \E msg \in MainResponses : HandleStateResponse(msg, TRUE)
    \/ HandleReceivedRequestedPart(0, 0, MainAnchor)
    \/ HandleClientAddr
    \/ \E info \in PeersAtMaxHeight : HandleNetworkInfo(info)
    \/ HeadAdvances

Spec == Init /\ [][Next]_vars

----------------------------------------------------------------------------
(* The catchup loop from the construction of the actor, with two anchors    *)
(* awaiting catchup.  No peer connects, so start_sync keeps waiting and the *)
(* main loop does not start.                                                *)

InitCatchup ==
    /\ sync_status = AwaitingPeers
    /\ catchup_state_syncs = EmptyMap
    /\ client_addr = FALSE
    /\ network_info = NoPeers
    /\ config = [archive |-> FALSE, skip_sync_wait |-> FALSE]
    /\ head_height = StartHeight
    /\ state_sync_infos = {MainAnchor, CatchupAnchor}
    /\ timers = [start_sync |-> 0, sync |-> 0, catchup |-> 0]
    /\ started = FALSE
    /\ panicked = FALSE
    /\ op = "new"
    /\ out = <<>>
    /\ needs_syncing = "unset"
    /\ purged_anchor = NoHash
    /\ ibf = NoIbf
    /\ contract_cache = NoCache

\* the responses peers send for the anchors awaiting catchup: the header, or
\* the first part
CatchupResponses ==
    {msg \in StateResponses :
        /\ msg.shard_id \in TrackedShards
        /\ IF msg.header THEN msg.part = NoPart ELSE msg.part = 0}

NextCatchup ==
    \/ Started
    \/ StartSyncTimer
    \/ CatchupTimer
    \/ HandleClientAddr
    \/ \E msg \in CatchupResponses : HandleStateResponse(msg, TRUE)

SpecCatchup == InitCatchup /\ [][NextCatchup]_vars

----------------------------------------------------------------------------
(* The main loop and the catchup loop from the construction of the actor,   *)
(* when the anchor awaiting catchup is the first block of the epoch the main *)
(* loop resolves for its own state sync.                                    *)

InitOverlap ==
    /\ sync_status = AwaitingPeers
    /\ catchup_state_syncs = EmptyMap
    /\ client_addr = FALSE
    /\ network_info = NoPeers
    /\ config = [archive |-> FALSE, skip_sync_wait |-> FALSE]
    /\ head_height = StartHeight
    /\ state_sync_infos = {MainAnchor}
    /\ timers = [start_sync |-> 0, sync |-> 0, catchup |-> 0]
    /\ started = FALSE
    /\ panicked = FALSE
    /\ op = "new"
    /\ out = <<>>
    /\ needs_syncing = "unset"
    /\ purged_anchor = NoHash
    /\ ibf = NoIbf
    /\ contract_cache = NoCache

NextOverlap ==
    \/ Started
    \/ StartSyncTimer
    \/ SyncTimer
    \/ CatchupTimer
    \/ HandleClientAddr
    \/ \E info \in PeersAtMaxHeight \ {NoPeers} : HandleNetworkInfo(info)
    \/ \E msg \in MainResponses : HandleStateResponse(msg, TRUE)

SpecOverlap == InitOverlap /\ [][NextOverlap]_vars

----------------------------------------------------------------------------
(* Properties of the response handler *)

\* the slots of tracker `after` keep what is done in tracker `before`: a slot
\* done before is there and done after, and errored after only if errored before
KeepsDone(before, after) ==
    \A i \in DOMAIN before.downloads :
        before.downloads[i].done =>
            /\ i \in DOMAIN after.downloads
            /\ after.downloads[i].done
            /\ after.downloads[i].error => before.downloads[i].error

StorageCalls(log) ==
    CallsNamed(log, "set_state_header") \cup CallsNamed(log, "set_state_part")

\* the trackers a response for (hash, shard_id) can be meant for
MatchesMain(hash, shard_id) ==
    /\ sync_status.tag = "StateSync"
    /\ sync_status.hash = hash
    /\ shard_id \in DOMAIN sync_status.shards
MatchesCatchup(hash, shard_id) ==
    /\ hash \in DOMAIN catchup_state_syncs
    /\ shard_id \in DOMAIN catchup_state_syncs[hash]

\* C1: a slot that is done when a StateResponse arrives is still done after it,
\* and its error flag is as it was, whatever the response carries and whatever
\* the storage call returns.
C1_DoneSlotNotRegressed ==
    [][op' = "StateResponse" =>
          /\ \A s \in DOMAIN sync_status.shards :
                /\ s \in DOMAIN sync_status'.shards
                /\ KeepsDone(sync_status.shards[s], sync_status'.shards[s])
          /\ \A h \in DOMAIN catchup_state_syncs :
                \A s \in DOMAIN catchup_state_syncs[h] :
                   /\ h \in DOMAIN catchup_state_syncs'
                   /\ s \in DOMAIN catchup_state_syncs'[h]
                   /\ KeepsDone(catchup_state_syncs[h][s],
                                catchup_state_syncs'[h][s])]_vars

\* a response without a header has been handled for the main tracker of shard 0,
\* whose header slot is done and not errored
C1_Witness ==
    /\ op = "StateResponse" /\ out = <<>> /\ ~panicked
    /\ sync_status.tag = "StateSync" /\ 0 \in DOMAIN sync_status.shards
    /\ sync_status.shards[0].status = "StateDownloadHeader"
    /\ At(sync_status.shards[0].downloads, 0) = [done |-> TRUE, error |-> FALSE]
    /\ DOMAIN catchup_state_syncs = {}

\* C2: a StateResponse whose (hash, shard) has no tracker in the main episode
\* and none in a catchup entry makes no storage call, changes no tracker, no
\* phase and no catchup entry, and does not panic.
C2_UnmatchedIsNoOp ==
    [][\/ /\ StorageCalls(out') = {}
          /\ sync_status' = sync_status
          /\ catchup_state_syncs' = catchup_state_syncs
          /\ ~panicked'
       \/ \A msg \in StateResponses, ok \in BOOLEAN :
             ~(/\ ~MatchesMain(msg.hash, msg.shard_id)
               /\ ~MatchesCatchup(msg.hash, msg.shard_id)
               /\ HandleStateResponse(msg, ok))]_vars

\* a response with a part for the anchor of the main episode and a shard the
\* episode has no tracker for has been handled: the part is acknowledged to the
\* driver and nothing else is called
C2_Witness ==
    /\ op = "StateResponse" /\ ~panicked
    /\ sync_status.tag = "StateSync"
    /\ Len(out) = 1 /\ out[1].call = "received_requested_part"
    /\ out[1].arg[4] = sync_status.hash
    /\ out[1].arg[3] \notin DOMAIN sync_status.shards
    /\ DOMAIN catchup_state_syncs = {}

\* C3: for a tracker in the parts-download status, a StateResponse with a part
\* id >= Len(downloads) makes no set_state_part call and changes nothing.
C3_OutOfRangePartDropped ==
    [][\/ /\ StorageCalls(out') = {}
          /\ sync_status' = sync_status
          /\ catchup_state_syncs' = catchup_state_syncs
          /\ ~panicked'
       \/ \A msg \in StateResponses, ok \in BOOLEAN :
         ~(/\ msg.part # NoPart
           /\ \/ /\ MatchesMain(msg.hash, msg.shard_id)
                 /\ ~MatchesCatchup(msg.hash, msg.shard_id)
                 /\ sync_status.shards[msg.shard_id].status = "StateDownloadParts"
                 /\ msg.part >= Len(sync_status.shards[msg.shard_id].downloads)
              \/ /\ MatchesCatchup(msg.hash, msg.shard_id)
                 /\ ~MatchesMain(msg.hash, msg.shard_id)
                 /\ catchup_state_syncs[msg.hash][msg.shard_id].status
                       = "StateDownloadParts"
                 /\ msg.part
                       >= Len(catchup_state_syncs[msg.hash][msg.shard_id].downloads)
           /\ HandleStateResponse(msg, ok))]_vars

\* a part whose id is the part count of the main tracker of its shard has been
\* handled: it is acknowledged and dropped
C3_Witness ==
    /\ op = "StateResponse" /\ ~panicked
    /\ sync_status.tag = "StateSync"
    /\ Len(out) = 1 /\ out[1].call = "received_requested_part"
    /\ out[1].arg[4] = sync_status.hash
    /\ out[1].arg[3] \in DOMAIN sync_status.shards
    /\ sync_status.shards[out[1].arg[3]].status = "StateDownloadParts"
    /\ out[1].arg[2] = Len(sync_status.shards[out[1].arg[3]].downloads)
    /\ DOMAIN catchup_state_syncs = {}

\* status and number of slots of every tracker, and the phase that holds them
Shape(status, catchups) ==
    [tag |-> status.tag,
     hash |-> status.hash,
     main |-> [s \in DOMAIN status.shards |->
                 <<status.shards[s].status, Len(status.shards[s].downloads)>>],
     catchup |-> [h \in DOMAIN catchups |->
                    [s \in DOMAIN catchups[h] |->
                       <<catchups[h][s].status, Len(catchups[h][s].downloads)>>]]]

\* C4: no StateResponse, ReceivedRequestedPart, NetworkInfo or ClientAddr message
\* changes the status of a tracker or the length of its downloads.
C4_MessagesKeepShape ==
    [][op' \in {"StateResponse", "ReceivedRequestedPart", "NetworkInfo", "ClientAddr"}
          => Shape(sync_status', catchup_state_syncs')
               = Shape(sync_status, catchup_state_syncs)]_vars

\* a header has been applied with success to the main tracker of a shard: its
\* slot is done, and the tracker still awaits its header with its one slot
C4_Witness ==
    /\ op = "StateResponse" /\ ~panicked
    /\ Len(out) = 1 /\ out[1].call = "set_state_header"
    /\ sync_status.tag = "StateSync"
    /\ out[1].arg[1] \in DOMAIN sync_status.shards
    /\ LET t == sync_status.shards[out[1].arg[1]]
       IN  /\ t.status = "StateDownloadHeader"
           /\ Len(t.downloads) = 1
           /\ At(t.downloads, 0).done

----------------------------------------------------------------------------
(* Properties of the sync tick and of the catchup pass *)

Has(log, name) == \E i \in DOMAIN log : log[i].call = name
IndexOf(log, name) == CHOOSE i \in DOMAIN log : log[i].call = name

\* the part of a log written by sync, and the part written by catchup
SyncLog(log) ==
    IF ~Has(log, "sync") THEN <<>>
    ELSE SubSeq(log, IndexOf(log, "sync"),
                IF Has(log, "catchup") THEN IndexOf(log, "catchup") - 1 ELSE Len(log))
CatchupLog(log) ==
    IF ~Has(log, "catchup") THEN <<>>
    ELSE SubSeq(log, IndexOf(log, "catchup"), Len(log))

\* the three outputs of a completion
IsOutput(entry) ==
    entry.call \in {"SendChallenges", "ProcessAcceptedBlocked", "request_chunks"}
OutputsOf(log) == SelectSeq(log, IsOutput)
OutputsAfter(log, name) ==
    OutputsOf(SubSeq(log, IndexOf(log, name) + 1, Len(log)))
OutputsBefore(log, name) ==
    OutputsOf(SubSeq(log, 1, IndexOf(log, name) - 1))

\* the calls of a state sync driver, and of the purge
DriverCalls == {"state_sync.run -> " \o r : r \in StateSyncResults}
PurgeCalls == {"reset_data_pre_state_sync -> Ok", "reset_data_pre_state_sync -> Err"}

\* the tick of out' computed needs_syncing, from the peer and the head it read
Computed(log) == Has(log, "syncing_info -> Ok")
BestPeer == highest_height_peer(network_info)

\* C5, as the specification words it: over consecutive ticks, once needs_syncing
\* is true it stays true until the best peer's height is <= the head height,
\* once false it stays false until the best peer is more than
\* sync_height_threshold above the head, and with equal heights it is false and
\* the phase is NoSync.
C5_StaysTrueUntilCaughtUp ==
    [][Computed(out') /\ BestPeer # NoHash =>
         /\ (needs_syncing = "true" /\ BestPeer > head_height
                => needs_syncing' = "true")
         /\ (needs_syncing = "false" /\ BestPeer <= head_height + sync_height_threshold
                => needs_syncing' = "false")
         /\ (BestPeer = head_height
                => needs_syncing' = "false" /\ sync_status'.tag = "NoSync")]_vars

\* C5, amended: the band is keyed on the phase the tick starts in.  In a syncing
\* phase needs_syncing is true exactly while a peer is known and its height is
\* above the head; in NoSync it is true exactly when the best peer is more than
\* sync_height_threshold above the head.  A tick that computes false leaves the
\* phase NoSync, so once false it stays false until the threshold is exceeded;
\* once true it stays true until the peer's height is <= the head, provided the
\* tick that computed true left a syncing phase.
C5_Hysteresis ==
    [][Computed(out') =>
         /\ (is_syncing(sync_status) /\ BestPeer # NoHash /\ BestPeer > head_height
                => needs_syncing' = "true")
         /\ (is_syncing(sync_status) /\ BestPeer <= head_height
                => needs_syncing' = "false")
         /\ (~is_syncing(sync_status)
                => (needs_syncing' = "true"
                      <=> BestPeer > head_height + sync_height_threshold))
         /\ (needs_syncing = "false" => ~is_syncing(sync_status))
         /\ (needs_syncing = "false" /\ BestPeer <= head_height + sync_height_threshold
                => needs_syncing' = "false")
         /\ (needs_syncing' = "false" => sync_status'.tag = "NoSync")
         /\ (BestPeer = head_height
                => needs_syncing' = "false" /\ sync_status'.tag = "NoSync")]_vars

\* a tick in a syncing phase found the best peer inside the band and kept syncing
C5_Witness ==
    /\ op = "sync" /\ Computed(out) /\ needs_syncing = "true"
    /\ BestPeer > head_height /\ BestPeer <= head_height + sync_height_threshold

\* C6: within one main StateSync episode reset_data_pre_state_sync is called at
\* most once, never on an archival node, and before the first run of the
\* state-sync driver for the anchor; a later tick of the episode does not call
\* it again, whatever the driver returned on the first tick.
C6_PurgedOncePerEpisode ==
    [][\A i \in DOMAIN out' :
          out'[i].call \in PurgeCalls =>
             /\ ~config.archive
             /\ purged_anchor # out'[i].arg[1]
             /\ \A j \in DOMAIN out' :
                   /\ (out'[j].call \in PurgeCalls => j = i)
                   /\ (out'[j].call \in DriverCalls => j > i)]_vars

\* the log of a tick whose main driver returned Completed and whose
\* reset_heads_post_state_sync returned Ok
MainCompleted(log) ==
    /\ \E i \in DOMAIN log :
          /\ log[i].call = "state_sync.run -> Completed"
          /\ log[i].arg[1] = MainDriver
    /\ Has(log, "reset_heads_post_state_sync -> Ok")

\* C7: when the driver of the main episode returns Completed and the reset of
\* the heads succeeds, the tick ends with the phase BodySync{0, 0}.
C7_CompletedEndsInBodySync ==
    MainCompleted(SyncLog(out)) /\ ~panicked => sync_status = BodySync(0, 0)

C7_Witness ==
    /\ op = "sync" /\ MainCompleted(SyncLog(out)) /\ ~panicked
    /\ sync_status = BodySync(0, 0)
    /\ Has(out, "run_later(sync_step_period, sync)")

\* arg lists every chunk of every block of missing, and nothing else
Covers(arg, missing) ==
    /\ {arg[k] : k \in DOMAIN arg}
          = UNION {{missing[b][k] : k \in DOMAIN missing[b]} : b \in DOMAIN missing}
    /\ \A k, l \in DOMAIN arg : arg[k] = arg[l] => k = l

\* C8: on completion of the main episode the tick sends the challenges, then the
\* accepted blocks, then makes one request_chunks call for the missing chunks of
\* all blocks the reset reported; nothing is sent twice, nothing before the
\* reset has returned, and a tick that stops short has sent a prefix of these.
C8_CompletionOutputsInOrder ==
    LET log == SyncLog(out)
    IN  IF ~Has(log, "reset_heads_post_state_sync -> Ok") THEN OutputsOf(log) = <<>>
        ELSE /\ OutputsBefore(log, "reset_heads_post_state_sync -> Ok") = <<>>
             /\ \E o \in ChainOutputs :
                  LET sent == OutputsAfter(log, "reset_heads_post_state_sync -> Ok")
                      want == <<Call("SendChallenges", o.challenges),
                                Call("ProcessAcceptedBlocked", o.accepted)>>
                  IN  IF panicked
                      THEN sent = SubSeq(want, 1, Len(sent))
                      ELSE /\ Len(sent) = Len(want) + 1
                           /\ SubSeq(sent, 1, Len(want)) = want
                           /\ sent[Len(sent)].call = "request_chunks"
                           /\ Covers(sent[Len(sent)].arg, o.missing)

C8_Witness ==
    /\ op = "sync" /\ ~panicked
    /\ Has(SyncLog(out), "reset_heads_post_state_sync -> Ok")
    /\ \E i \in DOMAIN out :
          out[i].call = "request_chunks" /\ Len(out[i].arg) > 1

\* C9: when a catchup episode completes, its outputs go out in the order of the
\* main episode: the challenges, then the accepted blocks, then one chunk request.
C9_CatchupOutputsAsMain ==
    LET log == CatchupLog(out)
    IN  Has(log, "catchup_blocks -> Ok") /\ ~panicked
           /\ Has(log, "request_chunks") /\ Has(log, "ProcessAcceptedBlocked")
        => Calls(OutputsAfter(log, "catchup_blocks -> Ok"))
              = <<"SendChallenges", "ProcessAcceptedBlocked", "request_chunks">>

\* C10: a catchup pass runs the driver of every anchor awaiting state sync, once;
\* no anchor is skipped because the driver of another returned Completed or an
\* error earlier in the pass.
C10_EveryAnchorRun ==
    [][Has(out', "catchup") /\ ~panicked' =>
         \A h \in state_sync_infos :
            Cardinality({i \in DOMAIN out' :
                            /\ out'[i].call \in DriverCalls
                            /\ out'[i].arg = <<h, h>>}) = 1]_vars

----------------------------------------------------------------------------
(* Properties of the catchup entries, of the panics and of the tick's loop *)

\* the anchors whose catchup driver returned `result` in the pass of log
CatchupDriverReturned(log, result) ==
    {log[i].arg[2] : i \in {j \in DOMAIN log :
                               /\ log[j].call = "state_sync.run -> " \o result
                               /\ log[j].arg[1] # MainDriver}}
CatchupDriverRan(log) ==
    UNION {CatchupDriverReturned(log, r) : r \in StateSyncResults}

\* C11: the catchup entry of an anchor is made by the first pass that sees the
\* anchor awaiting state sync, and once the anchor's driver has reported
\* Completed the entry is no longer in catchup_state_syncs.
C11_EntryRemovedOnCompletion ==
    [][Has(out', "catchup") /\ ~panicked' =>
         /\ \A h \in CatchupDriverRan(out') : h \in DOMAIN catchup_state_syncs'
         /\ \A h \in CatchupDriverReturned(out', "Completed") :
               h \notin DOMAIN catchup_state_syncs']_vars

\* C12: a catchup pass that meets a violated internal invariant (its driver
\* returns Changed with fetch_block set) gives up the pass only: the actor goes
\* on, and the pass is scheduled again after catchup_step_period.
C12_ViolationEndsThePassOnly ==
    [][Has(out', "catchup") /\ CatchupDriverReturned(out', "Changed(true)") # {} =>
         /\ ~panicked'
         /\ Has(out', "run_later(catchup_step_period, catchup)")
         /\ timers'.catchup = 1]_vars

\* the run_later entries of a log that schedule a tick
TickScheduled(log) ==
    {i \in DOMAIN log : log[i].call \in {"run_later(sync_step_period, sync)",
                                          "run_later(sync_check_period, sync)"}}

\* C13: every run of the tick, on every path, schedules exactly one next tick,
\* so once the loop has started exactly one tick is pending and the loop goes on
\* (stated for the ticks of an actor that has been given the client's address).
C13_TickSchedulesNextTick ==
    [][Has(out', "sync") /\ client_addr =>
         /\ ~panicked'
         /\ Cardinality(TickScheduled(out')) = 1
         /\ timers'.sync = 1]_vars

\* the anchors a log names: in the purge, in a run of the main driver, in the
\* reset of the heads
AnchorsNamed(log) ==
    {log[i].arg[1] : i \in {j \in DOMAIN log :
         log[j].call \in PurgeCalls \cup {"find_sync_hash -> ok",
                                          "reset_heads_post_state_sync -> Ok",
                                          "reset_heads_post_state_sync -> Err"}}}
    \cup {log[i].arg[2] : i \in {j \in DOMAIN log :
         log[j].call \in DriverCalls /\ log[j].arg[1] = MainDriver}}

\* the block the walk back from the header head at height hh ends at is genesis
\* or a block of the first epoch
LandsInFirstEpoch(hh) ==
    /\ hh - 1 - state_fetch_horizon >= Genesis
    /\ EpochStart(hh - 1 - state_fetch_horizon) = Genesis

\* C14: find_sync_hash never returns the genesis hash.  When the walk back of
\* state_fetch_horizon blocks ends at genesis or in the first epoch, what it
\* returns is the first block of the header head's own epoch, which is not
\* genesis; so no StateSync phase has genesis for its anchor, and no purge, driver
\* run or reset of the heads is made for genesis.
C14_AnchorNeverGenesis ==
    /\ \A hh \in 0..MaxHeight :
          find_sync_hash(hh).kind = "ok" =>
             /\ find_sync_hash(hh).value # Genesis
             /\ LandsInFirstEpoch(hh) => find_sync_hash(hh).value = EpochStart(hh)
    /\ sync_status.tag = "StateSync" => sync_status.hash # Genesis
    /\ Genesis \notin AnchorsNamed(out)

\* a tick entered StateSync with an anchor found after the walk back had ended
\* in the first epoch
C14_Witness ==
    /\ sync_status.tag = "StateSync"
    /\ \E i, j \in DOMAIN out :
          /\ out[i].call = "header_head -> Ok" /\ LandsInFirstEpoch(out[i].arg[1])
          /\ out[j] = Call("find_sync_hash -> ok", <<sync_status.hash>>)

\* C15: for every anchor and shard at most one tracker is held, by the main
\* StateSync episode or by one catchup entry, so the handler's assertion that the
\* downloads have no duplicates does not fail.
C15_OneTrackerPerAnchorAndShard ==
    \A hash \in Hashes, shard_id \in Shards :
       ~(MatchesMain(hash, shard_id) /\ MatchesCatchup(hash, shard_id))

\* the part-received notifications of a log
PartAckCalls(log) == CallsNamed(log, "received_requested_part")

\* C16: when a StateResponse with a part matches a tracker, the part-received
\* notification is made once, to the driver of the episode that holds the
\* tracker: the main driver for the main episode, the entry's own driver for a
\* catchup entry.
C16_AckToOwningDriver ==
    [][op' = "StateResponse" =>
         \A i \in PartAckCalls(out') :
            LET shard_id == out'[i].arg[3]
                hash == out'[i].arg[4]
            IN  MatchesMain(hash, shard_id) \/ MatchesCatchup(hash, shard_id) =>
                   /\ PartAckCalls(out') = {i}
                   /\ out'[i].arg[1] = IF MatchesMain(hash, shard_id)
                                       THEN MainDriver ELSE hash]_vars

\* the episode of anchor hash is abandoned: the chain does not report the anchor
\* as awaiting catchup and the main phase is not StateSync for it
Abandoned(hash) ==
    /\ hash \notin state_sync_infos
    /\ ~(sync_status.tag = "StateSync" /\ sync_status.hash = hash)

\* a StateResponse for the anchor would find no tracker, and the one handled
\* made no storage call for it and left the trackers of its entry alone
NoTrackerFor(hash) ==
    \A shard_id \in Shards :
       ~MatchesMain(hash, shard_id) /\ ~MatchesCatchup(hash, shard_id)
NoEffectOn(hash) ==
    /\ \A i \in StorageCalls(out') : out'[i].arg[2] # hash
    /\ hash \in DOMAIN catchup_state_syncs
          => catchup_state_syncs'[hash] = catchup_state_syncs[hash]

\* C17: once an episode is abandoned, a StateResponse for its anchor finds no
\* tracker, makes no storage call and changes no tracker.
C17_AbandonedAnchorFindsNoTracker ==
    [][op' = "StateResponse" =>
         \A hash \in Hashes :
            Abandoned(hash) => NoTrackerFor(hash) /\ NoEffectOn(hash)]_vars

----------------------------------------------------------------------------
(* Properties of the steps of a tick *)

HeaderDriverCalls == {"header_sync.run -> Ok", "header_sync.run -> Err"}
BlockDriverCalls ==
    {"block_sync.run -> Err", "block_sync.run -> Ok(false)", "block_sync.run -> Ok(true)"}
CallsIn(log, names) == {i \in DOMAIN log : log[i].call \in names}
MainDriverCalls(log) ==
    {i \in CallsIn(log, DriverCalls) : log[i].arg[1] = MainDriver}

HeaderHeadRead(log) == Has(log, "header_head -> Ok")
HeaderHeadOf(log) == log[IndexOf(log, "header_head -> Ok")].arg[1]
HighestHeightOf(log) == log[IndexOf(log, "syncing_info -> Ok")].arg[2]
InStateSyncAfterHeaderDriver(log) ==
    /\ sync_status.tag = "StateSync"
    /\ log[IndexOf(log, "header_sync.run -> Ok")].arg[1] = 0
WithinHorizon(log) ==
    HeaderHeadOf(log) >= IF HighestHeightOf(log) >= block_header_fetch_horizon
                         THEN HighestHeightOf(log) - block_header_fetch_horizon
                         ELSE 0

\* C20: in a tick that needs sync the header driver runs, before any other
\* driver.  Once the header head is read: in the phase StateSync the state driver
\* runs, whatever the horizon, and the block driver does not; otherwise the block
\* driver runs exactly when the header head is within block_header_fetch_horizon
\* of the highest height (saturating), and the state driver only after the block
\* driver has asked for it; beyond the horizon neither runs.
C20_DriversGatedByPhaseAndHorizon ==
    [][Computed(out') /\ needs_syncing' = "true" =>
         /\ Cardinality(CallsIn(out', HeaderDriverCalls)) = 1
         /\ \A i \in CallsIn(out', BlockDriverCalls) \cup MainDriverCalls(out') :
               \A h \in CallsIn(out', HeaderDriverCalls) : h < i
         /\ ~HeaderHeadRead(out') =>
               CallsIn(out', BlockDriverCalls) \cup MainDriverCalls(out') = {}
         /\ HeaderHeadRead(out') /\ InStateSyncAfterHeaderDriver(out') =>
               /\ CallsIn(out', BlockDriverCalls) = {}
               /\ Cardinality(MainDriverCalls(out')) = 1
         /\ HeaderHeadRead(out') /\ ~InStateSyncAfterHeaderDriver(out') =>
               /\ Cardinality(CallsIn(out', BlockDriverCalls))
                     = IF WithinHorizon(out') THEN 1 ELSE 0
               /\ MainDriverCalls(out') # {} => Has(out', "block_sync.run -> Ok(true)")]_vars

\* a tick outside StateSync read a header head beyond the horizon and ran
\* neither the block driver nor the state driver
C20_Witness ==
    /\ op = "sync" /\ Computed(out) /\ needs_syncing = "true"
    /\ HeaderHeadRead(out) /\ ~WithinHorizon(out)
    /\ sync_status.tag # "StateSync"
    /\ CallsIn(out, BlockDriverCalls) \cup MainDriverCalls(out) = {}

----------------------------------------------------------------------------
(* Properties of the tick's transitions, requests and failures *)

AnnounceCalls(log) == CallsNamed(log, "CheckSendAnnounceAccount")

\* C21: a tick that leaves a syncing phase for NoSync sends the announce-account
\* check to the client once; a tick that starts in NoSync and does not need sync
\* sends none; and the phase never becomes NoSync without the check being sent.
C21_TransitionAnnouncedOnce ==
    [][Has(out', "sync") /\ ~panicked' =>
         /\ Computed(out') /\ needs_syncing' = "false" /\ is_syncing(sync_status) =>
               sync_status' = NoSync
         /\ Computed(out') /\ needs_syncing' = "false" /\ ~is_syncing(sync_status) =>
               AnnounceCalls(out') = {}
         /\ is_syncing(sync_status) /\ sync_status' = NoSync =>
               Cardinality(AnnounceCalls(out')) = 1]_vars

\* the block requests of a tick, and its reads of block_exists
BlockRequests(log) == CallsNamed(log, "BlockRequest")
BlockExistsCalls(log) ==
    {i \in DOMAIN log :
        log[i].call \in {"block_exists -> Ok(false)", "block_exists -> Ok(true)",
                         "block_exists -> Err"}}
ChangedTrue(log) ==
    {i \in DOMAIN log : /\ log[i].call = "state_sync.run -> Changed(true)"
                        /\ log[i].arg[1] = MainDriver}
ChangedFalse(log) ==
    {i \in DOMAIN log : /\ log[i].call = "state_sync.run -> Changed(false)"
                        /\ log[i].arg[1] = MainDriver}

\* C22: when the state driver of the main episode returns Changed(true) the
\* tick stores StateSync(anchor, ..) as the phase and, if the header of the
\* anchor is read, looks up the predecessor of the anchor and the anchor with
\* block_exists and sends a BlockRequest to the best-height peer for each one
\* that block_exists reports absent, and for no other block; on Changed(false)
\* the phase is stored and no block is looked up or requested.
C22_ChangedStoresPhaseAndRequestsBlocks ==
    [][Has(out', "sync") =>
         /\ \A c \in ChangedFalse(out') :
               /\ sync_status'.tag = "StateSync" /\ sync_status'.hash = out'[c].arg[2]
               /\ BlockRequests(out') \cup BlockExistsCalls(out') = {}
         /\ \A c \in ChangedTrue(out') :
               /\ sync_status'.tag = "StateSync" /\ sync_status'.hash = out'[c].arg[2]
               /\ \A i \in BlockExistsCalls(out') \cup BlockRequests(out') : i > c
               /\ IF Has(out', "get_block_header -> Ok")
                  THEN \E i, j \in BlockExistsCalls(out') :
                          /\ i < j /\ BlockExistsCalls(out') = {i, j}
                          /\ out'[i].arg = <<prev_hash(out'[c].arg[2])>>
                          /\ out'[j].arg = <<out'[c].arg[2]>>
                  ELSE BlockExistsCalls(out') = {}
               /\ \A i \in BlockRequests(out') :
                     /\ out'[i - 1].call = "block_exists -> Ok(false)"
                     /\ out'[i].arg = <<out'[i - 1].arg[1], BestPeer>>
               /\ \A i \in BlockExistsCalls(out') :
                     out'[i].call = "block_exists -> Ok(false)" =>
                        i + 1 \in BlockRequests(out')]_vars

\* the driver returned Changed(true), the predecessor of the anchor is there and
\* the anchor is not: one block is requested, the anchor
C22_Witness ==
    /\ op = "sync" /\ ~panicked
    /\ ChangedTrue(out) # {}
    /\ Has(out, "block_exists -> Ok(true)")
    /\ Cardinality(BlockRequests(out)) = 1
    /\ \A i \in BlockRequests(out) : out[i].arg = <<sync_status.hash, BestPeer>>

\* the steps of a tick taken through unwrap_or_run_later!, as logged when they fail
FailedSteps ==
    {"syncing_info -> Err", "head -> Err", "header_sync.run -> Err",
     "header_head -> Err", "block_sync.run -> Err", "find_sync_hash -> err",
     "reset_data_pre_state_sync -> Err", "state_sync.run -> Err",
     "reset_heads_post_state_sync -> Err"}

\* the phase as the steps of a tick logged in log wrote it, from the phase
\* `status` the tick started in: NoSync on leaving sync, the header phase where
\* the header driver wrote it, the body phase where the block driver did
WroteIn(log, names) == \E i \in DOMAIN log : log[i].call \in names /\ log[i].arg = <<1>>
PhaseWritten(status, log) ==
    IF WroteIn(log, BlockDriverCalls)
    THEN BodySync(head_height, HighestHeightOf(log))
    ELSE IF WroteIn(log, HeaderDriverCalls) THEN HeaderSyncStatus
    ELSE IF Has(log, "head -> Err") THEN NoSync
    ELSE status

----------------------------------------------------------------------------
(* Properties of the arms of the response handler *)

\* the one tracker a response is meant for, before and after it is handled
TrackedOnce(hash, shard_id) ==
    MatchesMain(hash, shard_id) # MatchesCatchup(hash, shard_id)
TrackerAt(hash, shard_id) ==
    IF MatchesMain(hash, shard_id)
    THEN sync_status.shards[shard_id]
    ELSE catchup_state_syncs[hash][shard_id]
TrackerOf(msg) == TrackerAt(msg.hash, msg.shard_id)
\* the responses for one block and shard
ResponsesFor(hash, shard_id) ==
    [hash : {hash}, shard_id : {shard_id}, header : BOOLEAN, part : {NoPart} \cup PartIds]
TrackerAfter(msg) ==
    IF MatchesMain(msg.hash, msg.shard_id)
    THEN sync_status'.shards[msg.shard_id]
    ELSE catchup_state_syncs'[msg.hash][msg.shard_id]

\* nothing but the tracker of the response is written
OnlyTrackerWritten(msg) ==
    IF MatchesMain(msg.hash, msg.shard_id)
    THEN /\ catchup_state_syncs' = catchup_state_syncs
         /\ sync_status' = [sync_status EXCEPT !.shards[msg.shard_id] = TrackerAfter(msg)]
    ELSE /\ sync_status' = sync_status
         /\ catchup_state_syncs' =
               [catchup_state_syncs EXCEPT ![msg.hash][msg.shard_id] = TrackerAfter(msg)]

\* the slots of `after` other than slot i are the slots of `before`
OtherSlotsKept(before, after, i) ==
    /\ Len(after.downloads) = Len(before.downloads)
    /\ \A j \in 0..(Len(before.downloads) - 1) :
          j # i => At(after.downloads, j) = At(before.downloads, j)

CountCalls(log, name) == Cardinality(CallsNamed(log, name))
Made(log, c) == \E k \in DOMAIN log : log[k] = c

DownloadStatuses == {"StateDownloadHeader", "StateDownloadParts"}

\* C24: a StateResponse that matches a tracker whose status is neither the header
\* download nor the parts download makes no storage call and changes no slot of
\* any tracker.
C24_DoneTrackerIgnoresResponse ==
    [][\A msg \in StateResponses, ok \in BOOLEAN :
          /\ \/ /\ MatchesMain(msg.hash, msg.shard_id)
                /\ sync_status.shards[msg.shard_id].status \notin DownloadStatuses
             \/ /\ MatchesCatchup(msg.hash, msg.shard_id)
                /\ catchup_state_syncs[msg.hash][msg.shard_id].status
                      \notin DownloadStatuses
          /\ HandleStateResponse(msg, ok)
          => /\ StorageCalls(out') = {}
             /\ sync_status' = sync_status
             /\ catchup_state_syncs' = catchup_state_syncs]_vars

\* a response with a header and a part has been handled for the main tracker of
\* shard 0, which is past its downloads with both flags of its header slot set:
\* the part is acknowledged and nothing is stored
C24_Witness ==
    /\ op = "StateResponse" /\ ~panicked
    /\ sync_status.tag = "StateSync" /\ 0 \in DOMAIN sync_status.shards
    /\ sync_status.shards[0].status \notin DownloadStatuses
    /\ Len(out) = 1 /\ out[1].call = "received_requested_part"
    /\ out[1].arg[3] = 0 /\ out[1].arg[4] = sync_status.hash
    /\ DOMAIN catchup_state_syncs = {}

\* C25: for the one tracker a StateResponse matches, in the header-download
\* status: with a header and slot 0 not done, set_state_header is called once and
\* slot 0 is done when the call succeeds and errored when it fails; with a header
\* and slot 0 done no storage call is made; without a header slot 0 is errored
\* exactly when it is not done.  The other slots and the status are unchanged.
C25_HeaderArm ==
    [][\A hash \in {MainAnchor, CatchupAnchor}, shard_id \in Shards :
        /\ op' = "StateResponse"
        /\ TrackedOnce(hash, shard_id)
        /\ TrackerAt(hash, shard_id).status = "StateDownloadHeader"
        => \A msg \in ResponsesFor(hash, shard_id), ok \in BOOLEAN :
          HandleStateResponse(msg, ok)
          => LET before == TrackerOf(msg)
                 after == TrackerAfter(msg)
                 slot == At(before.downloads, 0)
             IN  /\ ~panicked'
                 /\ OnlyTrackerWritten(msg)
                 /\ after.status = before.status
                 /\ OtherSlotsKept(before, after, 0)
                 /\ CountCalls(out', "set_state_part") = 0
                 /\ msg.header /\ ~slot.done =>
                       /\ CountCalls(out', "set_state_header") = 1
                       /\ Made(out', Call("set_state_header", <<msg.shard_id, msg.hash>>))
                       /\ At(after.downloads, 0) =
                             IF ok THEN [slot EXCEPT !.done = TRUE]
                                   ELSE [slot EXCEPT !.error = TRUE]
                 /\ msg.header /\ slot.done =>
                       /\ CountCalls(out', "set_state_header") = 0
                       /\ after = before
                 /\ ~msg.header =>
                       /\ CountCalls(out', "set_state_header") = 0
                       /\ At(after.downloads, 0) =
                             IF slot.done THEN slot ELSE [slot EXCEPT !.error = TRUE]]_vars

\* a header has been handled for the tracker of catchup block CatchupAnchor,
\* shard 0, and storing it failed: the slot is errored and not done
C25_Witness ==
    /\ op = "StateResponse" /\ ~panicked
    /\ Has(out, "set_state_header")
    /\ CatchupAnchor \in DOMAIN catchup_state_syncs
    /\ 0 \in DOMAIN catchup_state_syncs[CatchupAnchor]
    /\ catchup_state_syncs[CatchupAnchor][0].status = "StateDownloadHeader"
    /\ At(catchup_state_syncs[CatchupAnchor][0].downloads, 0)
          = [done |-> FALSE, error |-> TRUE]

\* the part of a response for a tracked block is acknowledged to the driver before
\* the tracker is looked up (568-571, 587-590), so the part a step handled is the
\* part its log starts with
Acknowledged(log, msg) ==
    /\ log # <<>>
    /\ log[1] = Call("received_requested_part",
                     <<MainDriver, msg.part, msg.shard_id, msg.hash>>)

\* C26: for the one tracker a StateResponse matches, in the parts-download
\* status: a part with an index i below the part count, slot i not done, makes one
\* set_state_part call with the part count of the tracker, and slot i is done when
\* the call succeeds and errored when it fails; with slot i done no storage call
\* is made; a response without a part changes nothing.  No slot but i is written.
C26_PartsArm ==
    [][\A hash \in {MainAnchor, CatchupAnchor}, shard_id \in Shards :
        /\ op' = "StateResponse"
        /\ TrackedOnce(hash, shard_id)
        /\ TrackerAt(hash, shard_id).status = "StateDownloadParts"
        => \A msg \in ResponsesFor(hash, shard_id), ok \in BOOLEAN :
          /\ msg.part = NoPart \/ msg.part < Len(TrackerOf(msg).downloads)
          /\ msg.part # NoPart => Acknowledged(out', msg)
          /\ HandleStateResponse(msg, ok)
          => LET before == TrackerOf(msg)
                 after == TrackerAfter(msg)
                 count == Len(before.downloads)
             IN  /\ ~panicked'
                 /\ OnlyTrackerWritten(msg)
                 /\ after.status = before.status
                 /\ CountCalls(out', "set_state_header") = 0
                 /\ msg.part = NoPart =>
                       /\ out' = <<>>
                       /\ after = before
                 /\ msg.part # NoPart =>
                       /\ OtherSlotsKept(before, after, msg.part)
                       /\ IF At(before.downloads, msg.part).done
                          THEN /\ CountCalls(out', "set_state_part") = 0
                               /\ after = before
                          ELSE /\ CountCalls(out', "set_state_part") = 1
                               /\ Made(out', Call("set_state_part",
                                       <<msg.shard_id, msg.hash, msg.part, count>>))
                               /\ At(after.downloads, msg.part) =
                                     IF ok THEN [At(before.downloads, msg.part)
                                                    EXCEPT !.done = TRUE]
                                           ELSE [At(before.downloads, msg.part)
                                                    EXCEPT !.error = TRUE]]_vars

\* part 0 of MaxParts has been stored for the main tracker of shard 0: slot 0
\* is done and the last slot is not
C26_Witness ==
    /\ op = "StateResponse" /\ ~panicked
    /\ sync_status.tag = "StateSync" /\ 0 \in DOMAIN sync_status.shards
    /\ sync_status.shards[0].status = "StateDownloadParts"
    /\ Len(sync_status.shards[0].downloads) = MaxParts
    /\ Made(out, Call("set_state_part", <<0, sync_status.hash, 0, MaxParts>>))
    /\ At(sync_status.shards[0].downloads, 0).done
    /\ ~At(sync_status.shards[0].downloads, MaxParts - 1).done

\* the trackers of a state that are in the parts-download status, each with
\* the block and the shard it is for
PartTrackers ==
    (IF sync_status.tag = "StateSync"
     THEN {[hash |-> sync_status.hash, shard_id |-> s,
            download |-> sync_status.shards[s]] :
              s \in {x \in DOMAIN sync_status.shards :
                        sync_status.shards[x].status = "StateDownloadParts"}}
     ELSE {})
    \cup UNION {{[hash |-> h, shard_id |-> s, download |-> catchup_state_syncs[h][s]] :
                    s \in {x \in DOMAIN catchup_state_syncs[h] :
                              catchup_state_syncs[h][x].status = "StateDownloadParts"}} :
                 h \in DOMAIN catchup_state_syncs}

\* the orders in which the parts of set S can arrive
Orders(S) ==
    {f \in [1..Cardinality(S) -> S] : \A i, j \in DOMAIN f : i # j => f[i] # f[j]}

\* the tracker after responses with parts order[1], order[2], ... have been handled
\* for it, one after the other, each part stored with success
RECURSIVE AfterParts(_, _)
AfterParts(t, order) ==
    IF order = <<>> THEN t.download
    ELSE ApplyResponse(
            AfterParts(t, SubSeq(order, 1, Len(order) - 1)),
            [hash |-> t.hash, shard_id |-> t.shard_id, header |-> FALSE,
             part |-> order[Len(order)]],
            TRUE).download

\* C27: for a tracker in the parts-download status, the tracker reached after a
\* set of part responses has been handled, each stored with success, is the same
\* for every order of arrival, and every part of the set is done in it.
C27_PartOrderIrrelevant ==
    \A t \in PartTrackers :
        \A S \in SUBSET (0..(Len(t.download.downloads) - 1)) :
            \A p \in Orders(S) :
                /\ \A i \in S : At(AfterParts(t, p).downloads, i).done
                /\ \A q \in Orders(S) : AfterParts(t, q) = AfterParts(t, p)

\* the main tracker of shard 0 has MaxParts parts, and part 0 has been stored
\* after the last part: both slots are done
C27_Witness ==
    /\ op = "StateResponse" /\ ~panicked
    /\ sync_status.tag = "StateSync" /\ 0 \in DOMAIN sync_status.shards
    /\ sync_status.shards[0].status = "StateDownloadParts"
    /\ Len(sync_status.shards[0].downloads) = MaxParts
    /\ Made(out, Call("set_state_part", <<0, sync_status.hash, 0, MaxParts>>))
    /\ At(sync_status.shards[0].downloads, 0).done
    /\ At(sync_status.shards[0].downloads, MaxParts - 1).done

----------------------------------------------------------------------------
(* Properties of the trackers between the handler and the tick *)

\* the flags of the tracker map a tick handed to the state driver, as logged
PassedFlags(log) ==
    LET i == CHOOSE j \in MainDriverCalls(log) : TRUE
    IN  SubSeq(log[i].arg, 3, Len(log[i].arg))

\* a tick ran the state driver for the main episode, which it started in and
\* which the header driver left in place
TickInStateSync ==
    /\ MainDriverCalls(out') # {}
    /\ sync_status.tag = "StateSync"
    /\ ~WroteIn(out', HeaderDriverCalls)

\* C28: a flag the response handler sets between two ticks is not lost.  A step
\* that is not a tick of the main loop keeps every done slot of the main
\* trackers; the tick hands the state driver the tracker map as the last step
\* before it left it; and the map the tick writes back is one the driver made
\* from that map, a tick being one step that no response is handled within.
C28_HandlerFlagsReachTheDriver ==
    [][/\ ~Has(out', "sync") /\ sync_status.tag = "StateSync" =>
             /\ sync_status'.tag = "StateSync"
             /\ sync_status'.hash = sync_status.hash
             /\ \A s \in DOMAIN sync_status.shards :
                   /\ s \in DOMAIN sync_status'.shards
                   /\ KeepsDone(sync_status.shards[s], sync_status'.shards[s])
       /\ TickInStateSync =>
             /\ PassedFlags(out') = FlagsOf(sync_status.shards)
             /\ sync_status'.tag = "StateSync" =>
                   sync_status'.shards \in
                      {sync_status.shards} \cup ShardMapSteps(sync_status.shards)]_vars

\* a tick has handed the state driver a tracker of the parts download whose
\* first slot is done, the flag the handler set for part 0, and the driver has
\* left the map as it was
C28_Witness ==
    /\ op = "sync" /\ ~panicked
    /\ Has(out, "state_sync.run -> Unchanged")
    /\ sync_status.tag = "StateSync" /\ 0 \in DOMAIN sync_status.shards
    /\ sync_status.shards[0].status = "StateDownloadParts"
    /\ At(sync_status.shards[0].downloads, 0).done
    /\ PassedFlags(out)[1] = 1

----------------------------------------------------------------------------
(* Properties of the start of the actor *)

\* the messages the actor sends to the client
ClientMessages == {"ProcessAcceptedBlocked", "SendChallenges", "CheckSendAnnounceAccount"}
\* the sends to the client of a log, made or attempted
ClientSends(log) ==
    {i \in DOMAIN log :
        \E m \in ClientMessages : log[i].call \in {m, m \o " -> unwrap on None"}}

\* C29: no step sends or tries to send to the client (the accepted blocks of
\* catchup, challenges, the announce check) before a ClientAddr message has been
\* handled, the first catchup pass of the started hook included.
C29_NoSendBeforeRegistration ==
    ClientSends(out) # {} => client_addr

\* C30: with skip_sync_wait not set, a start check made while num_active_peers
\* is below min_num_peers does not start the main loop: the phase stays
\* AwaitingPeers, no driver of the main loop runs, and the check is scheduled
\* again after sync_step_period.  Once a tick of the main loop is pending the
\* start check does not run and is not scheduled again.
C30_LoopWaitsForPeers ==
    [][/\ /\ Has(out', "start_sync")
          /\ network_info.num_active_peers < min_num_peers
          /\ ~config.skip_sync_wait
          => /\ ~Has(out', "sync")
             /\ sync_status = AwaitingPeers /\ sync_status' = AwaitingPeers
             /\ CallsIn(out', HeaderDriverCalls \cup BlockDriverCalls) = {}
             /\ MainDriverCalls(out') = {}
             /\ out'[2].call = "run_later(sync_step_period, start_sync)"
             /\ timers'["start_sync"] = 1 /\ timers'["sync"] = 0
       /\ timers["sync"] > 0 =>
             /\ ~Has(out', "start_sync")
             /\ timers'["start_sync"] = 0
             /\ timers'["sync"] > 0 \/ panicked']_vars

\* the start check has run from its timer while the node has too few peers: it
\* is scheduled again and the phase is AwaitingPeers
C30_Witness ==
    /\ op = "start_sync" /\ ~panicked
    /\ network_info.num_active_peers < min_num_peers
    /\ Len(out) = 2
    /\ out[2].call = "run_later(sync_step_period, start_sync)"
    /\ sync_status = AwaitingPeers
    /\ timers["start_sync"] = 1 /\ timers["sync"] = 0

----------------------------------------------------------------------------
(* Properties of the anchor and of the catchup pass *)

FindSyncHashCalls(log) ==
    {i \in DOMAIN log :
        log[i].call \in {"find_sync_hash -> ok", "find_sync_hash -> err",
                         "find_sync_hash -> panic"}}

\* C31: while the phase stays StateSync its anchor does not change.  A step
\* taken in StateSync whose header driver leaves the phase in place does not
\* call find_sync_hash, runs the state driver with the anchor of the phase, and
\* leaves a StateSync phase with that anchor, wherever the header head is.
C31_AnchorFixedInEpisode ==
    [][sync_status.tag = "StateSync" /\ ~WroteIn(out', HeaderDriverCalls) =>
          /\ FindSyncHashCalls(SyncLog(out')) = {}
          /\ \A i \in MainDriverCalls(out') : out'[i].arg[2] = sync_status.hash
          /\ sync_status'.tag = "StateSync" => sync_status'.hash = sync_status.hash]_vars

\* a tick that started in StateSync has read the header head at MaxHeight, past
\* the anchor, has not called find_sync_hash, and has run the state driver, which
\* changed the trackers, with the anchor of the phase
C31_Witness ==
    /\ op = "sync" /\ ~panicked
    /\ sync_status.tag = "StateSync"
    /\ FindSyncHashCalls(out) = {}
    /\ HeaderHeadRead(out)
    /\ HeaderHeadOf(out) = MaxHeight
    /\ HeaderHeadOf(out) > sync_status.hash
    /\ \E i \in ChangedFalse(out) \cup ChangedTrue(out) :
          out[i].arg[2] = sync_status.hash

\* the anchors whose driver a pass ran, and its catchup_blocks calls
Processed(log) ==
    {log[i].arg[1] : i \in {j \in CallsIn(log, DriverCalls) : log[j].arg[1] # MainDriver}}
CatchupBlocksCalls == {"catchup_blocks -> Ok", "catchup_blocks -> Err"}

\* C32: a catchup pass leaves the phase and with it the trackers of the main
\* episode as they are, keeps every catchup entry and writes only the entries of
\* the anchors whose driver it ran; and when the driver of an anchor returns
\* Completed the next call of the pass is catchup_blocks for that anchor.
C32_CatchupPassFrame ==
    [][Has(out', "catchup") =>
          /\ ~Has(out', "sync") => sync_status' = sync_status
          /\ DOMAIN catchup_state_syncs \subseteq DOMAIN catchup_state_syncs'
          /\ \A h \in DOMAIN catchup_state_syncs' :
                h \notin Processed(CatchupLog(out')) =>
                   /\ h \in DOMAIN catchup_state_syncs
                   /\ catchup_state_syncs'[h] = catchup_state_syncs[h]
          /\ \A i \in DOMAIN out' :
                /\ out'[i].call = "state_sync.run -> Completed"
                /\ out'[i].arg[1] # MainDriver
                => /\ i < Len(out')
                   /\ out'[i + 1].call \in CatchupBlocksCalls
                   /\ out'[i + 1].arg = <<out'[i].arg[1]>>]_vars

\* a pass has finished the catchup of an anchor and applied its blocks while
\* the main episode is in StateSync with a tracker
C32_Witness ==
    /\ op = "catchup" /\ ~panicked
    /\ Has(out, "state_sync.run -> Completed")
    /\ Has(out, "catchup_blocks -> Ok")
    /\ sync_status.tag = "StateSync"
    /\ 0 \in DOMAIN sync_status.shards

----------------------------------------------------------------------------
(* Ibf, the invertible Bloom filter (chain/network/src/ibf.rs)             *)
(*                                                                         *)
(* Elements and hashes are u64 in the code and small naturals here; xor,   *)
(* masks and shifts are computed bit by bit, and no operation on them can  *)
(* overflow.  DefaultHasher is std's: the seeded hasher of a sketch is a   *)
(* function from the elements to hash values, any one, fixed when the      *)
(* sketch is made.                                                         *)

NUM_HASHES == 3

\* Ibf::new is called with a capacity in 1..MaxCapacity
MaxCapacity == 5
\* at most MaxAdded elements are in a sketch at a time
MaxAdded == 3

\* the elements: closed under xor, as recovery hashes the xor of elements
Values == 0..3
\* the hash values drawn: with four cells (k = 2) 0 and 64 fall in the cells
\* 0, 1, 2 and differ above the index bits, 10 falls in 0, 2, 3 and 21 in
\* 1, 2, 3; 28 and 44 fall twice in one cell and once in another
HashValues == {0, 10, 21, 28, 44, 64}
Hashers == [Values -> HashValues]

\* ^ on u64
RECURSIVE Xor(_, _)
Xor(a, b) ==
    IF a = 0 THEN b
    ELSE IF b = 0 THEN a
    ELSE ((a + b) % 2) + 2 * Xor(a \div 2, b \div 2)

\* IbfElem::default
IbfElem == [xor_elem |-> 0, xor_hash |-> 0]

\* IbfElem::adjust
adjust(cell, elem, elem_hash) ==
    [xor_elem |-> Xor(cell.xor_elem, elem), xor_hash |-> Xor(cell.xor_hash, elem_hash)]

\* Ibf::calculate_k
RECURSIVE calculate_k_from(_, _)
calculate_k_from(k, capacity) ==
    IF 2^k + NUM_HASHES - 1 < capacity THEN calculate_k_from(k + 1, capacity) ELSE k
calculate_k(capacity) == calculate_k_from(0, capacity)

\* Ibf::new; data[i + 1] is the cell of index i
IbfNew(capacity, hasher) ==
    [k |-> calculate_k(capacity),
     data |-> [i \in 1..(2^calculate_k(capacity) + NUM_HASHES - 1) |-> IbfElem],
     hasher |-> hasher]

\* Ibf::compute_hash
compute_hash(sketch, elem) == sketch.hasher[elem]

\* Ibf::generate_idx; x & mask is x % 2^k and x >> n is x \div 2^n
generate_idx(k, elem_hash) ==
    LET pos0 == elem_hash % 2^k
        raw1 == (elem_hash \div 2^k) % 2^k
        raw2 == (elem_hash \div 2^(2 * k)) % 2^k
        pos1 == IF raw1 >= pos0 THEN (raw1 + 1) % 2^k ELSE raw1
        lo   == IF pos0 <= pos1 THEN pos0 ELSE pos1
        hi   == IF pos0 <= pos1 THEN pos1 ELSE pos0
        mid2 == IF raw2 >= lo THEN (raw2 + 1) % 2^k ELSE raw2
        pos2 == IF mid2 >= hi THEN (mid2 + 1) % 2^k ELSE mid2
    IN  <<pos0, pos1, pos2>>

\* for &pos in &pos_list { self.data[pos].adjust(elem, elem_hash) }
RECURSIVE AdjustCells(_, _, _, _)
AdjustCells(data, pos_list, elem, elem_hash) ==
    IF pos_list = <<>> THEN data
    ELSE AdjustCells([data EXCEPT ![Head(pos_list) + 1] = adjust(@, elem, elem_hash)],
                     Tail(pos_list), elem, elem_hash)

\* Ibf::adjust_value
adjust_value(sketch, elem) ==
    [sketch EXCEPT !.data =
        AdjustCells(@, generate_idx(sketch.k, compute_hash(sketch, elem)),
                    elem, compute_hash(sketch, elem))]

adjust_value_and_add_to_queue_NoPush(sketch, elem, elem_hash, queue) ==
    [data |-> AdjustCells(sketch.data, generate_idx(sketch.k, elem_hash), elem, elem_hash),
     queue |-> queue]

\* Ibf::adjust_value_and_add_to_queue
adjust_value_and_add_to_queue(sketch, elem, elem_hash, queue) ==
    [data |-> AdjustCells(sketch.data, generate_idx(sketch.k, elem_hash), elem, elem_hash),
     queue |-> queue \o generate_idx(sketch.k, elem_hash)]

\* the elements try_recover pushes before the model stops following it: a cell
\* that passes the hash check and is not changed by its own removal is pushed
\* and popped without end
Fuel(sketch) == Len(sketch.data) * Cardinality(Values)

\* while let Some(i) = to_check.pop() { .. }
RECURSIVE Drain(_, _, _, _)
Drain(sketch, result, to_check, fuel) ==
    IF to_check = <<>> THEN [data |-> sketch.data, result |-> result, cut |-> FALSE]
    ELSE IF fuel = 0 THEN [data |-> sketch.data, result |-> result, cut |-> TRUE]
    ELSE LET i    == to_check[Len(to_check)]
             rest == SubSeq(to_check, 1, Len(to_check) - 1)
             elem == sketch.data[i + 1].xor_elem
             elem_hash == compute_hash(sketch, elem)
             q    == adjust_value_and_add_to_queue(sketch, elem, elem_hash, rest)
         IN  IF elem = 0 /\ sketch.data[i + 1].xor_hash = 0
             THEN Drain(sketch, result, rest, fuel)
             ELSE IF elem_hash # sketch.data[i + 1].xor_hash
             THEN Drain(sketch, result, rest, fuel)
             ELSE Drain([sketch EXCEPT !.data = q.data], Append(result, elem),
                        q.queue, fuel - 1)

\* for i in 0..self.data.len() { to_check.push(i); .. }
RECURSIVE Sweep(_, _, _, _)
Sweep(sketch, result, i, fuel) ==
    IF i = Len(sketch.data)
    THEN [data |-> sketch.data, result |-> result, cut |-> FALSE]
    ELSE LET d == Drain(sketch, result, <<i>>, fuel)
         IN  IF d.cut THEN d
             ELSE Sweep([sketch EXCEPT !.data = d.data], d.result, i + 1,
                        fuel - (Len(d.result) - Len(result)))

\* Ibf::try_recover
try_recover(sketch) ==
    LET r == Sweep(sketch, <<>>, 0, Fuel(sketch))
    IN  [data |-> r.data, result |-> r.result, cut |-> r.cut,
         difference |-> Cardinality({i \in DOMAIN r.data : r.data[i].xor_elem # 0})]

\* the actor is not part of a run of the sketch
IbfFrame ==
    UNCHANGED <<sync_status, catchup_state_syncs, client_addr, network_info, config,
                head_height, state_sync_infos, timers, started, panicked, op, out,
                needs_syncing, purged_anchor, contract_cache>>

\* tests::create_blt makes the sketch; added is the set of elements in it
InitIbf ==
    /\ sync_status = NoSync
    /\ catchup_state_syncs = EmptyMap
    /\ client_addr = FALSE
    /\ network_info = NoPeers
    /\ config = [archive |-> FALSE, skip_sync_wait |-> FALSE]
    /\ head_height = 0
    /\ state_sync_infos = {}
    /\ timers = [start_sync |-> 0, sync |-> 0, catchup |-> 0]
    /\ started = FALSE
    /\ panicked = FALSE
    /\ op = "none"
    /\ out = <<>>
    /\ needs_syncing = "unset"
    /\ purged_anchor = NoHash
    /\ contract_cache = NoCache
    /\ \E capacity \in 1..MaxCapacity, hasher \in Hashers :
          ibf = [op |-> "new", sketch |-> IbfNew(capacity, hasher), added |-> {},
                 result |-> <<>>, difference |-> 0, cut |-> FALSE]

\* Ibf::add, of an element that is not in the sketch
IbfAdd(elem) ==
    /\ ibf.op \in {"new", "add", "remove"}
    /\ elem \notin ibf.added
    /\ Cardinality(ibf.added) < MaxAdded
    /\ ibf' = [ibf EXCEPT !.op = "add", !.sketch = adjust_value(@, elem),
                          !.added = @ \cup {elem}]
    /\ IbfFrame

\* Ibf::remove, of an element that is in the sketch
IbfRemove(elem) ==
    /\ ibf.op \in {"new", "add", "remove"}
    /\ elem \in ibf.added
    /\ ibf' = [ibf EXCEPT !.op = "remove", !.sketch = adjust_value(@, elem),
                          !.added = @ \ {elem}]
    /\ IbfFrame

\* Ibf::recover: try_recover, and Ok(result) when difference is 0; the sketch
\* is recovered once, as in tests::create_blt_test
IbfRecover ==
    /\ ibf.op \in {"new", "add", "remove"}
    /\ LET r == try_recover(ibf.sketch)
       IN  ibf' = [ibf EXCEPT !.op = "recover", !.sketch.data = r.data,
                              !.result = r.result, !.difference = r.difference,
                              !.cut = r.cut]
    /\ IbfFrame

NextIbf ==
    \/ \E elem \in Values : IbfAdd(elem)
    \/ \E elem \in Values : IbfRemove(elem)
    \/ IbfRecover

SpecIbf == InitIbf /\ [][NextIbf]_vars

----------------------------------------------------------------------------
(* Properties of the sketch *)

\* the cells an element is stored in: those it is xored into an odd number of times
CellsOf(sketch, elem) ==
    LET pos_list == generate_idx(sketch.k, compute_hash(sketch, elem))
    IN  {pos_list[j] : j \in {n \in DOMAIN pos_list :
            Cardinality({m \in DOMAIN pos_list : pos_list[m] = pos_list[n]}) % 2 = 1}}

\* the elements can be taken out one at a time, each from a cell that no
\* other remaining element is stored in
RECURSIVE Peelable(_, _)
Peelable(sketch, elems) ==
    \/ elems = {}
    \/ \E e \in elems :
          /\ \E c \in CellsOf(sketch, e) :
                \A o \in elems \ {e} : c \notin CellsOf(sketch, o)
          /\ Peelable(sketch, elems \ {e})

RECURSIVE XorElems(_)
XorElems(elems) ==
    IF elems = {} THEN 0
    ELSE LET e == CHOOSE x \in elems : TRUE IN Xor(e, XorElems(elems \ {e}))

RECURSIVE XorHashes(_, _)
XorHashes(sketch, elems) ==
    IF elems = {} THEN 0
    ELSE LET e == CHOOSE x \in elems : TRUE
         IN  Xor(compute_hash(sketch, e), XorHashes(sketch, elems \ {e}))

\* a cell holding exactly these elements passes the checks of try_recover
LooksLikeOneElement(sketch, elems) ==
    /\ ~(XorElems(elems) = 0 /\ XorHashes(sketch, elems) = 0)
    /\ compute_hash(sketch, XorElems(elems)) = XorHashes(sketch, elems)

\* every added element is seen when alone in a cell, and no two or more of
\* them together are taken for an element
HashesTellApart(sketch, elems) ==
    \A some \in SUBSET elems :
        /\ Cardinality(some) = 1 => LooksLikeOneElement(sketch, some)
        /\ Cardinality(some) > 1 => ~LooksLikeOneElement(sketch, some)

\* recover returned Ok with each element of the sketch once
RecoveredAll ==
    /\ ~ibf.cut /\ ibf.difference = 0
    /\ Len(ibf.result) = Cardinality(ibf.added)
    /\ {ibf.result[i] : i \in DOMAIN ibf.result} = ibf.added

\* the cells allocated are at least twice the elements, as the 2050 cells for
\* 1000 elements of tests::create_blt_test
SufficientCapacity == Len(ibf.sketch.data) >= 2 * Cardinality(ibf.added)

\* C19 as stated: a sketch of sufficient capacity to which distinct elements
\* were added recovers successfully and returns each added element once.
C19_RecoversAllAdded ==
    ibf.op = "recover" /\ SufficientCapacity => RecoveredAll

\* C19: a sketch to which distinct elements were added recovers successfully
\* and returns each added element once, provided the elements can be peeled
\* (taken out one at a time, each from a cell no other remaining element is
\* stored in) and the hashes tell them apart (no two or more of them xor to an
\* element whose hash is the xor of theirs, and 0 does not hash to 0).
C19_RecoversWhenPeelable ==
    ibf.op = "recover"
    /\ Peelable(ibf.sketch, ibf.added) /\ HashesTellApart(ibf.sketch, ibf.added)
    => RecoveredAll

\* three elements were recovered, of which one only was alone in a cell at first
C19_Witness ==
    /\ ibf.op = "recover" /\ RecoveredAll
    /\ Cardinality(ibf.added) = 3
    /\ Cardinality({e \in ibf.added :
           \E c \in CellsOf(ibf.sketch, e) :
              \A o \in ibf.added \ {e} : c \notin CellsOf(ibf.sketch, o)}) = 1

\* the positions generate_idx gives the elements that are in the sketch
PositionsOfAdded ==
    {generate_idx(ibf.sketch.k, compute_hash(ibf.sketch, elem)) : elem \in ibf.added}

\* each position is the index of a cell of the sketch
PositionsValid ==
    ibf.op = "add" =>
       \A pos_list \in PositionsOfAdded :
          \A i \in 1..NUM_HASHES :
             pos_list[i] >= 0 /\ pos_list[i] < Len(ibf.sketch.data)

\* C34 (as stated): for every element hash and every k of calculate_k,
\* generate_idx returns three pairwise distinct positions, each the index of
\* one of the 2^k + NUM_HASHES - 1 cells, so that an element added is xored
\* into three different cells.
C34_ThreeDistinctCells ==
    /\ PositionsValid
    /\ ibf.op = "add" =>
          \A pos_list \in PositionsOfAdded :
             /\ Len(pos_list) = NUM_HASHES
             /\ \A i, j \in 1..NUM_HASHES : i # j => pos_list[i] # pos_list[j]
             /\ Len(ibf.sketch.data) = 2^ibf.sketch.k + NUM_HASHES - 1

----------------------------------------------------------------------------
(* The cached compile of contracts (runtime/near-vm-runner/src/cache.rs)    *)

\* contract codes are 0..MaxCode
MaxCode == 1
Codes == 0..MaxCode

VMKinds == {"Wasmer0", "Wasmer1"}

\* prepare::prepare_contract and the compiler: what they make of a code is fixed
\* by the code; here the odd codes compile
Compiles(code) == code % 2 = 1

\* Result<Module, VMError>
ModuleOf(code) == [kind |-> "Module", value |-> code]
Failed(error) == [kind |-> "VMError", value |-> error]

\* what the cache holds under a key: nothing, bytes that are no CacheRecord,
\* CacheRecord::Code or CacheRecord::Error
NoRecord == [tag |-> "None"]
ForeignBytes == [tag |-> "Bytes"]
CodeRecord(code) == [tag |-> "Code", code |-> code]
ErrorRecord(error) == [tag |-> "Error", error |-> error]

\* get_key: the hash of the Version2 key, which tells apart the codes and the VM
\* kinds; the config and the VM hash are fixed
get_key(code, vm_kind) == <<code, vm_kind>>
KeysOf(vm_kind) == {get_key(code, vm_kind) : code \in Codes}

\* what the calls outside the crate return in one cached compile: the get and
\* the put of the cache, the two serialization steps and the two loading steps
Outcomes ==
    [get : BOOLEAN, put : BOOLEAN, artifact : BOOLEAN, serialize : BOOLEAN,
     deserialize : BOOLEAN, load : BOOLEAN]

\* a cached compile so far: the store, the result and the calls made
Compiled(store, result, calls) == [store |-> store, result |-> result, calls |-> calls]

\* cache.put(key, record)
Put(store, key, record, env) ==
    IF env.put THEN [store EXCEPT ![key] = record] ELSE store

cache_error_NoRecord(error, key, store, env) ==
    Compiled(store, Failed(error), <<>>)
\* cache_error
cache_error(error, key, store, env) ==
    Compiled(Put(store, key, ErrorRecord(error), env),
             IF env.put THEN Failed(error) ELSE Failed("CacheError(WriteError)"),
             <<IF env.put THEN "put -> Ok" ELSE "put -> Err">>)

\* wasmer0_cache::compile_module and wasmer1_cache::compile_module_wasmer1
compile_module(code) ==
    IF Compiles(code) THEN ModuleOf(code) ELSE Failed("CompileError")

\* wasmer0_cache::compile_and_serialize_wasmer
compile_and_serialize_wasmer(code, key, store, env) ==
    LET module == compile_module(code)
    IN  IF module.kind = "VMError"
        THEN LET e == cache_error(module.value, key, store, env)
             IN  Compiled(e.store, e.result, <<"compile">> \o e.calls)
        ELSE IF ~env.artifact
        THEN Compiled(store, Failed("CacheError(SerializationError)"),
                      <<"compile", "module.cache -> Err">>)
        ELSE IF ~env.serialize
        THEN Compiled(store, Failed("CacheError(SerializationError)"),
                      <<"compile", "module.cache -> Ok", "serialize -> Err">>)
        ELSE Compiled(Put(store, key, CodeRecord(code), env),
                      IF env.put THEN module ELSE Failed("CacheError(WriteError)"),
                      <<"compile", "module.cache -> Ok", "serialize -> Ok",
                        IF env.put THEN "put -> Ok" ELSE "put -> Err">>)

\* wasmer0_cache::deserialize_wasmer
deserialize_wasmer(record, env) ==
    IF record = ForeignBytes THEN Failed("CacheError(DeserializationError)")
    ELSE IF record.tag = "Error" THEN Failed(record.error)
    ELSE IF ~env.deserialize \/ ~env.load
    THEN Failed("CacheError(DeserializationError)")
    ELSE ModuleOf(record.code)

\* wasmer0_cache::compile_module_cached_wasmer_impl; supplied: cache is Some
compile_module_cached_wasmer_impl(key, code, supplied, store, env) ==
    IF ~supplied THEN Compiled(store, compile_module(code), <<"compile">>)
    ELSE IF ~env.get
    THEN Compiled(store, Failed("CacheError(ReadError)"), <<"get -> Err">>)
    ELSE IF store[key] # NoRecord
    THEN Compiled(store, deserialize_wasmer(store[key], env),
                  <<"get -> Ok", "deserialize">>)
    ELSE LET c == compile_and_serialize_wasmer(code, key, store, env)
         IN  Compiled(c.store, c.result, <<"get -> Ok">> \o c.calls)

\* wasmer1_cache::compile_and_serialize_wasmer1
compile_and_serialize_wasmer1(code, key, store, env) ==
    LET module == compile_module(code)
    IN  IF module.kind = "VMError"
        THEN LET e == cache_error(module.value, key, store, env)
             IN  Compiled(e.store, e.result, <<"compile">> \o e.calls)
        ELSE IF ~env.serialize
        THEN Compiled(store, Failed("CacheError(SerializationError)"),
                      <<"compile", "serialize -> Err">>)
        ELSE Compiled(Put(store, key, CodeRecord(code), env),
                      IF env.put THEN module ELSE Failed("CacheError(WriteError)"),
                      <<"compile", "serialize -> Ok",
                        IF env.put THEN "put -> Ok" ELSE "put -> Err">>)

\* wasmer1_cache::deserialize_wasmer1
deserialize_wasmer1(record, env) ==
    IF record = ForeignBytes THEN Failed("CacheError(DeserializationError)")
    ELSE IF record.tag = "Error" THEN Failed(record.error)
    ELSE IF ~env.deserialize THEN Failed("CacheError(DeserializationError)")
    ELSE ModuleOf(record.code)

\* wasmer1_cache::compile_module_cached_wasmer1_impl
compile_module_cached_wasmer1_impl(key, code, supplied, store, env) ==
    IF ~supplied THEN Compiled(store, compile_module(code), <<"compile">>)
    ELSE IF ~env.get
    THEN Compiled(store, Failed("CacheError(ReadError)"), <<"get -> Err">>)
    ELSE IF store[key] # NoRecord
    THEN Compiled(store, deserialize_wasmer1(store[key], env),
                  <<"get -> Ok", "deserialize">>)
    ELSE LET c == compile_and_serialize_wasmer1(code, key, store, env)
         IN  Compiled(c.store, c.result, <<"get -> Ok">> \o c.calls)

\* the actor is not part of a cached compile, nor is the sketch
CacheFrame ==
    UNCHANGED <<sync_status, catchup_state_syncs, client_addr, network_info, config,
                head_height, state_sync_infos, timers, started, panicked, op, out,
                needs_syncing, purged_anchor, ibf>>

\* a cache of one VM kind, which holds nothing or bytes of another writer under
\* each key; no compile has been made
InitCache ==
    /\ sync_status = NoSync
    /\ catchup_state_syncs = EmptyMap
    /\ client_addr = FALSE
    /\ network_info = NoPeers
    /\ config = [archive |-> FALSE, skip_sync_wait |-> FALSE]
    /\ head_height = 0
    /\ state_sync_infos = {}
    /\ timers = [start_sync |-> 0, sync |-> 0, catchup |-> 0]
    /\ started = FALSE
    /\ panicked = FALSE
    /\ op = "none"
    /\ out = <<>>
    /\ needs_syncing = "unset"
    /\ purged_anchor = NoHash
    /\ ibf = NoIbf
    /\ \E vm_kind \in VMKinds :
       \E store \in [KeysOf(vm_kind) -> {NoRecord, ForeignBytes}] :
          contract_cache = [op |-> "new", vm_kind |-> vm_kind, store |-> store,
                            key |-> get_key(0, vm_kind), code |-> 0,
                            supplied |-> FALSE, result |-> Failed("none"),
                            calls |-> <<>>]

\* the record of a cached compile of `code` that returned c
AfterCompile(code, supplied, c) ==
    [contract_cache EXCEPT !.op = "compile", !.store = c.store,
                           !.key = get_key(code, contract_cache.vm_kind),
                           !.code = code, !.supplied = supplied,
                           !.result = c.result, !.calls = c.calls]

\* compile_module_cached_wasmer0 past its in-memory cache
CompileCachedWasmer0(code, supplied, env) ==
    /\ contract_cache.vm_kind = "Wasmer0"
    /\ contract_cache' =
          AfterCompile(code, supplied,
                       compile_module_cached_wasmer_impl(
                           get_key(code, "Wasmer0"), code, supplied,
                           contract_cache.store, env))
    /\ CacheFrame

\* compile_module_cached_wasmer1
CompileCachedWasmer1(code, supplied, env) ==
    /\ contract_cache.vm_kind = "Wasmer1"
    /\ contract_cache' =
          AfterCompile(code, supplied,
                       compile_module_cached_wasmer1_impl(
                           get_key(code, "Wasmer1"), code, supplied,
                           contract_cache.store, env))
    /\ CacheFrame

NextCache ==
    \/ \E code \in Codes, supplied \in BOOLEAN, env \in Outcomes :
          CompileCachedWasmer0(code, supplied, env)
    \/ \E code \in Codes, supplied \in BOOLEAN, env \in Outcomes :
          CompileCachedWasmer1(code, supplied, env)

SpecCache == InitCache /\ [][NextCache]_vars

----------------------------------------------------------------------------
(* Properties of the cached compile *)

Compilations(calls) == {i \in DOMAIN calls : calls[i] = "compile"}
Puts(calls) == {i \in DOMAIN calls : calls[i] \in {"put -> Ok", "put -> Err"}}
CacheReads(calls) == {i \in DOMAIN calls : calls[i] \in {"get -> Ok", "get -> Err"}}

\* the record a compile of `code` is stored as, and the outcome a record stands for
RecordOf(code) ==
    IF Compiles(code) THEN CodeRecord(code) ELSE ErrorRecord("CompileError")
OutcomeOf(record) ==
    IF record.tag = "Code" THEN ModuleOf(record.code) ELSE Failed(record.error)

\* the last step was a cached compile with a cache whose read succeeded
CacheRead ==
    /\ contract_cache'.supplied
    /\ contract_cache'.calls[1] = "get -> Ok"

\* the parts of the statement that hold whatever the calls outside return: a
\* failing read, and a compile with no cache
ReadFailureAndNoCache ==
    /\ contract_cache'.supplied /\ contract_cache'.calls[1] = "get -> Err" =>
          /\ contract_cache'.result = Failed("CacheError(ReadError)")
          /\ contract_cache'.calls = <<"get -> Err">>
          /\ contract_cache'.store = contract_cache.store
    /\ ~contract_cache'.supplied =>
          /\ contract_cache'.calls = <<"compile">>
          /\ contract_cache'.result =
                (IF Compiles(contract_cache'.code)
                 THEN ModuleOf(contract_cache'.code) ELSE Failed("CompileError"))
          /\ contract_cache'.store = contract_cache.store

\* C33 (as stated): with a cache, a cached compile for a key the cache does not
\* hold compiles the code and stores one record under the key, a Code record
\* when the compile succeeds and an Error record with the compile error when it
\* fails; for a key the cache holds a record of, it returns the stored outcome,
\* compiles nothing and writes nothing; a failing read returns
\* CacheError(ReadError) with no compile; with no cache the code is compiled and
\* the cache is not touched.
C33_CachedCompile ==
    [][/\ CacheRead /\ contract_cache.store[contract_cache'.key] = NoRecord =>
             /\ Cardinality(Compilations(contract_cache'.calls)) = 1
             /\ contract_cache'.store =
                   [contract_cache.store EXCEPT
                       ![contract_cache'.key] = RecordOf(contract_cache'.code)]
       /\ CacheRead /\ contract_cache.store[contract_cache'.key].tag \in {"Code", "Error"} =>
             /\ Compilations(contract_cache'.calls) = {}
             /\ Puts(contract_cache'.calls) = {}
             /\ contract_cache'.store = contract_cache.store
             /\ contract_cache'.result =
                   OutcomeOf(contract_cache.store[contract_cache'.key])
       /\ ReadFailureAndNoCache]_vars

\* C33 (amended): as stated when the serialization, the write and the loading
\* succeed.  For a key the cache does not hold the code is compiled once; a
\* failed compile is stored as an Error record and returned, a module that
\* cannot be serialized is returned as CacheError(SerializationError) with
\* nothing stored, a module that can is stored as a Code record and returned;
\* and when the write fails nothing is stored and CacheError(WriteError) is
\* returned.  For a key the cache holds something under, nothing is compiled or
\* written, and the result is the stored VMError, the module when the stored
\* code loads, and CacheError(DeserializationError) otherwise.
C33_CachedCompileOrCacheError ==
    [][/\ CacheRead /\ contract_cache.store[contract_cache'.key] = NoRecord =>
             LET calls == contract_cache'.calls
                 serialized == \A i \in DOMAIN calls :
                                  calls[i] \notin {"module.cache -> Err", "serialize -> Err"}
                 written == calls[Len(calls)] = "put -> Ok"
             IN  /\ Cardinality(Compilations(calls)) = 1
                 /\ Cardinality(Puts(calls))
                       = (IF Compiles(contract_cache'.code) /\ ~serialized THEN 0 ELSE 1)
                 /\ contract_cache'.store =
                       (IF written
                        THEN [contract_cache.store EXCEPT
                                 ![contract_cache'.key] = RecordOf(contract_cache'.code)]
                        ELSE contract_cache.store)
                 /\ contract_cache'.result =
                       (IF Compiles(contract_cache'.code) /\ ~serialized
                        THEN Failed("CacheError(SerializationError)")
                        ELSE IF ~written THEN Failed("CacheError(WriteError)")
                        ELSE OutcomeOf(RecordOf(contract_cache'.code)))
       /\ CacheRead /\ contract_cache.store[contract_cache'.key] # NoRecord =>
             /\ Compilations(contract_cache'.calls) = {}
             /\ Puts(contract_cache'.calls) = {}
             /\ contract_cache'.store = contract_cache.store
             /\ contract_cache'.result \in
                   {Failed("CacheError(DeserializationError)")}
                   \cup (IF contract_cache.store[contract_cache'.key] = ForeignBytes
                         THEN {}
                         ELSE {OutcomeOf(contract_cache.store[contract_cache'.key])})
             /\ contract_cache.store[contract_cache'.key].tag = "Error" =>
                   contract_cache'.result =
                      OutcomeOf(contract_cache.store[contract_cache'.key])
       /\ ReadFailureAndNoCache]_vars

\* a cached compile has found the Code record of its code under its key and has
\* returned the module: it read the cache and compiled and wrote nothing
C33_Witness ==
    /\ contract_cache.op = "compile"
    /\ contract_cache.supplied
    /\ contract_cache.calls = <<"get -> Ok", "deserialize">>
    /\ contract_cache.store[contract_cache.key] = CodeRecord(contract_cache.code)
    /\ contract_cache.result = ModuleOf(contract_cache.code)

============================================================================
